---- MODULE Spec2Model ----
(***************************************************************************)
(* Model of ObjectSelectionTool (src/src/tiled/objectselectiontool.cpp):   *)
(* the press / move / release state machine, the Moving, Rotating and      *)
(* Resizing gestures with their live updates, the undo macros pushed when  *)
(* a gesture finishes, the rollback on object removal and the handles.     *)
(*                                                                         *)
(* Coordinates are fixed-point integers in half pixels, so that            *)
(* QRectF::center() and the midpoints (a + b) / 2 of updateHandles are     *)
(* exact.  Objects and the pointer sit on whole pixels (even values).      *)
(* Rotations are in degrees; the pointer positions offered to a Rotating   *)
(* gesture are those for which the angle is a multiple of 90 degrees and   *)
(* the positions offered to a Resizing gesture are those for which the     *)
(* scaled geometry is on whole pixels, where sin, cos and the scale        *)
(* ratios are exact.  Floating-point rounding is not modelled.             *)
(***************************************************************************)
EXTENDS Integers, Sequences, FiniteSets, TLC

\* ------------------------------------------------------------- bounds
NumObjects == 2
MaxCoord == 1
MaxUndo == 1
MaxPresses == 2
MaxRemovals == 1
MaxSelectionChanges == 1
DragPixels == 3
HandleReach == 2
TilePixels == 2

Px(n) == 2 * n

Objects == 1 .. NumObjects
PointerPositions == {<<Px(i), Px(j)>> : i \in 0 .. MaxCoord, j \in 0 .. MaxCoord}
PressPositions == {<<Px(i), Px(i)>> : i \in 0 .. MaxCoord}
Modifiers == {"Shift", "Control", "Alt"}
ModifierSets == SUBSET Modifiers
ArrowKeys == {"Up", "Down", "Left", "Right"}

\* ------------------------------------------------------------- points and rectangles
PAdd(a, b) == <<a[1] + b[1], a[2] + b[2]>>
PSub(a, b) == <<a[1] - b[1], a[2] - b[2]>>
Half(v) == v \div 2
Mid(a, b) == <<Half(a[1] + b[1]), Half(a[2] + b[2])>>
Min2(a, b) == IF a < b THEN a ELSE b
Max2(a, b) == IF a < b THEN b ELSE a
Abs(v) == IF v < 0 THEN -v ELSE v
ManhattanLength(p) == Abs(p[1]) + Abs(p[2])

Rect(x, y, w, h) == [x |-> x, y |-> y, w |-> w, h |-> h]
RectOf(p, s) == Rect(p[1], p[2], s[1], s[2])
RTranslate(r, d) == Rect(r.x + d[1], r.y + d[2], r.w, r.h)
RTopLeft(r) == <<r.x, r.y>>
RTopRight(r) == <<r.x + r.w, r.y>>
RBottomLeft(r) == <<r.x, r.y + r.h>>
RBottomRight(r) == <<r.x + r.w, r.y + r.h>>
RCenter(r) == <<r.x + Half(r.w), r.y + Half(r.h)>>
RSize(r) == <<r.w, r.h>>
RCorners(r) == <<RTopLeft(r), RTopRight(r), RBottomRight(r), RBottomLeft(r)>>
\* QRectF::setLeft / setRight / setTop / setBottom move one edge only
RSetLeft(r, v) == Rect(v, r.y, r.x + r.w - v, r.h)
RSetRight(r, v) == Rect(r.x, r.y, v - r.x, r.h)
RSetTop(r, v) == Rect(r.x, v, r.w, r.y + r.h - v)
RSetBottom(r, v) == Rect(r.x, r.y, r.w, v - r.y)
RIsNull(r) == r.w = 0 /\ r.h = 0
\* QRectF::operator|: a null rectangle contributes nothing to the union
RUnited(a, b) ==
    IF RIsNull(a) THEN b
    ELSE IF RIsNull(b) THEN a
    ELSE LET l == Min2(a.x, b.x)
             t == Min2(a.y, b.y)
             r == Max2(a.x + a.w, b.x + b.w)
             bt == Max2(a.y + a.h, b.y + b.h)
         IN  Rect(l, t, r - l, bt - t)
RContains(r, p) ==
    /\ r.x <= p[1] /\ p[1] <= r.x + r.w
    /\ r.y <= p[2] /\ p[2] <= r.y + r.h

SeqMin(s, i) == LET S == {s[k][i] : k \in DOMAIN s} IN CHOOSE m \in S : \A v \in S : m <= v
SeqMax(s, i) == LET S == {s[k][i] : k \in DOMAIN s} IN CHOOSE m \in S : \A v \in S : v <= m
\* QPolygonF::boundingRect
PolyBoundingRect(poly) ==
    IF Len(poly) = 0 THEN Rect(0, 0, 0, 0)
    ELSE Rect(SeqMin(poly, 1), SeqMin(poly, 2),
              SeqMax(poly, 1) - SeqMin(poly, 1), SeqMax(poly, 2) - SeqMin(poly, 2))
PolyTranslated(poly, d) == [k \in DOMAIN poly |-> PAdd(poly[k], d)]

\* ------------------------------------------------------------- rotation
\* Rotation by a multiple of 90 degrees, the matrix QTransform::rotate builds
\* (x' = x cos a - y sin a, y' = x sin a + y cos a).
QuarterTurns(deg) == (deg \div 90) % 4
RotateVec(deg, v) ==
    CASE QuarterTurns(deg) = 0 -> v
      [] QuarterTurns(deg) = 1 -> <<-v[2], v[1]>>
      [] QuarterTurns(deg) = 2 -> <<-v[1], -v[2]>>
      [] QuarterTurns(deg) = 3 -> <<v[2], -v[1]>>

\* A QTransform that is the identity or a rotation about a point.
IdentityTransform == [at |-> <<0, 0>>, deg |-> 0]
rotateAt(position, rotation) == [at |-> position, deg |-> rotation]
TMap(t, p) == PAdd(t.at, RotateVec(t.deg, PSub(p, t.at)))
TMapPoly(t, poly) == [k \in DOMAIN poly |-> TMap(t, poly[k])]

\* ------------------------------------------------------------- renderer, view and snapping
\* The map is orthogonal: pixel and screen coordinates coincide.
pixelToScreenCoords(p) == p
screenToPixelCoords(p) == p
TileWidth == Px(TilePixels)
TileHeight == Px(TilePixels)
\* qRound of v / step, times step (halves round up)
RoundTo(v, step) == ((2 * v + step) \div (2 * step)) * step
\* SnapHelper: Control toggles the snap preference, which is off
SnapToGridPreference == FALSE
SnapHelperSnaps(toggled) == SnapToGridPreference # toggled
SnapHelperSnap(toggled, p) ==
    IF SnapHelperSnaps(toggled)
    THEN <<RoundTo(p[1], TileWidth), RoundTo(p[2], TileHeight)>>
    ELSE p

\* ------------------------------------------------------------- map objects
Anchors == {"TopLeft", "TopRight", "BottomLeft", "BottomRight", "Top", "Left", "Right", "Bottom"}
CornerAnchors == {"TopLeft", "TopRight", "BottomLeft", "BottomRight"}
Alignments == {"TopLeft", "Top", "TopRight", "Left", "Center", "Right",
               "BottomLeft", "Bottom", "BottomRight"}

\* The objects of the map: a rectangle, a polygon and (from the third on) a
\* zero-sized ellipse; shape and alignment never change.
ShapeOf(o) == CASE o % 3 = 1 -> "Rectangle" [] o % 3 = 2 -> "Polygon" [] OTHER -> "Ellipse"
AlignmentOf(o) == IF o % 3 = 1 THEN "TopLeft" ELSE "BottomLeft"
InitialObject(o) ==
    CASE o % 3 = 1 -> [position |-> <<Px(0), Px(0)>>, size |-> <<Px(1), Px(1)>>,
                       polygon |-> <<>>, rotation |-> 0]
      [] o % 3 = 2 -> [position |-> <<Px(1), Px(0)>>, size |-> <<0, 0>>,
                       polygon |-> <<<<0, 0>>, <<Px(1), 0>>, <<0, Px(1)>>>>, rotation |-> 0]
      [] OTHER     -> [position |-> <<Px(0), Px(1)>>, size |-> <<0, 0>>,
                       polygon |-> <<>>, rotation |-> 0]
WithItem(ob) ==
    [position |-> ob.position, size |-> ob.size, polygon |-> ob.polygon,
     rotation |-> ob.rotation, itemPos |-> pixelToScreenCoords(ob.position)]

\* ------------------------------------------------------------- geometry utilities
alignmentOffset(r, alignment) ==
    CASE alignment = "TopLeft"     -> <<0, 0>>
      [] alignment = "Top"         -> <<Half(r.w), 0>>
      [] alignment = "TopRight"    -> <<r.w, 0>>
      [] alignment = "Left"        -> <<0, Half(r.h)>>
      [] alignment = "Center"      -> <<Half(r.w), Half(r.h)>>
      [] alignment = "Right"       -> <<r.w, Half(r.h)>>
      [] alignment = "BottomLeft"  -> <<0, r.h>>
      [] alignment = "Bottom"      -> <<Half(r.w), r.h>>
      [] alignment = "BottomRight" -> <<r.w, r.h>>
align(r, alignment) == RTranslate(r, PSub(<<0, 0>>, alignmentOffset(r, alignment)))
unalign(r, alignment) == RTranslate(r, alignmentOffset(r, alignment))

\* ob is the object's record, o its identity (shape and alignment)
pixelBounds(o, ob) ==
    IF ShapeOf(o) \in {"Rectangle", "Ellipse"}
    THEN align(RectOf(ob.position, ob.size), AlignmentOf(o))
    ELSE PolyBoundingRect(PolyTranslated(ob.polygon, ob.position))

\* No object of the model carries a tile, so only the branch for plain shapes
\* of objectBounds is modelled.
objectBounds(o, ob, transform) ==
    IF ShapeOf(o) \in {"Rectangle", "Ellipse"}
    THEN LET bounds == align(RectOf(ob.position, ob.size), AlignmentOf(o))
             screenPolygon == [k \in 1 .. 4 |-> pixelToScreenCoords(RCorners(bounds)[k])]
         IN  PolyBoundingRect(TMapPoly(transform, screenPolygon))
    ELSE LET polygon == PolyTranslated(ob.polygon, ob.position)
             screenPolygon == [k \in DOMAIN polygon |-> pixelToScreenCoords(polygon[k])]
         IN  PolyBoundingRect(TMapPoly(transform, screenPolygon))

objectTransform(ob) ==
    IF ob.rotation # 0
    THEN rotateAt(pixelToScreenCoords(ob.position), ob.rotation)
    ELSE IdentityTransform

RECURSIVE SortedSeq(_)
SortedSeq(S) ==
    IF S = {} THEN <<>>
    ELSE LET m == CHOOSE v \in S : \A w \in S : v <= w
         IN  <<m>> \o SortedSeq(S \ {m})

\* ------------------------------------------------------------- state
VARIABLES
    activated,                \* activate() has added the handles to the scene
    mAction,                  \* "NoAction", "Selecting", "Moving", "Rotating", "Resizing"
    mMode,                    \* "Resize" or "Rotate"
    mMousePressed,
    mStart,                   \* scene position of the press (of the handle, when resizing)
    mScreenStart,             \* device position of the press
    mClickedObjectItem,       \* an object, or 0
    mClickedRotateHandle,     \* a corner anchor, or "none"
    mClickedResizeHandle,     \* an anchor, or "none"
    mResizingLimitHorizontal,
    mResizingLimitVertical,
    mOrigin,
    mAlignPosition,
    mMovingObjects,           \* the snapshot: a sequence of MovingObject records
    selectionRectangleShown,  \* mSelectionRectangle is an item of the scene
    objects,                  \* object -> position, size, polygon, rotation, itemPos
    present,                  \* the objects the map holds
    selectedObjects,
    handles,                  \* origin indicator, rotate handles and resize handles
    undoStack,                \* sequence of macros, each a sequence of commands
    mousePos,                 \* where the pointer is while the button is down
    presses,                  \* how many presses of the left button there were
    removals,                 \* how many times the document removed objects
    selectionChanges,         \* how many times the selection was changed from outside
    gestureBase,              \* history: the objects when the running gesture started
    lastClick,                \* history: the click the last step released, if it did
    ignoredPress              \* history: the last step was a press that was ignored

vars == <<activated, mAction, mMode, mMousePressed, mStart, mScreenStart,
          mClickedObjectItem, mClickedRotateHandle, mClickedResizeHandle,
          mResizingLimitHorizontal, mResizingLimitVertical, mOrigin, mAlignPosition,
          mMovingObjects, selectionRectangleShown, objects, present, selectedObjects,
          handles, undoStack, mousePos, presses, removals, selectionChanges, gestureBase,
          lastClick, ignoredPress>>

Gestures == {"Moving", "Rotating", "Resizing"}
Actions == {"NoAction", "Selecting"} \cup Gestures

\* ------------------------------------------------------------- handles
\* A variant of updateHandleVisibility() that shows the handles whatever the
\* action is
updateHandleVisibilityInAnyAction(h, action, mode, selection) ==
    LET hasSelection == selection # {}
        showOrigin == hasSelection /\ action # "Moving"
                        /\ (mode = "Rotate" \/ action = "Resizing")
    IN  [h EXCEPT !.rotateVisible = hasSelection /\ mode = "Rotate",
                  !.resizeVisible = hasSelection /\ mode = "Resize",
                  !.originVisible = showOrigin]

\* updateHandleVisibility() for the given action, mode and selection
updateHandleVisibility(h, action, mode, selection) ==
    LET hasSelection == selection # {}
        showHandles == hasSelection /\ (action = "NoAction" \/ action = "Selecting")
        showOrigin == hasSelection /\ action # "Moving"
                        /\ (mode = "Rotate" \/ action = "Resizing")
    IN  [h EXCEPT !.rotateVisible = showHandles /\ mode = "Rotate",
                  !.resizeVisible = showHandles /\ mode = "Resize",
                  !.originVisible = showOrigin]

RECURSIVE UnitedBounds(_, _, _)
UnitedBounds(objs, seq, acc) ==
    IF seq = <<>> THEN acc
    ELSE UnitedBounds(objs, Tail(seq),
                      RUnited(acc, objectBounds(Head(seq), objs[Head(seq)],
                                                objectTransform(objs[Head(seq)]))))

\* The four corners and the centre the handles are put on (lines 728-774)
HandleFrame(objs, selection) ==
    LET seq == SortedSeq(selection)
        first == seq[1]
        boundingRect == UnitedBounds(objs, Tail(seq),
                                     objectBounds(first, objs[first], objectTransform(objs[first])))
    IN  IF Len(seq) = 1
        THEN LET bounds == pixelBounds(first, objs[first])
                 transform == objectTransform(objs[first])
             IN  [topLeft |-> TMap(transform, pixelToScreenCoords(RTopLeft(bounds))),
                  topRight |-> TMap(transform, pixelToScreenCoords(RTopRight(bounds))),
                  bottomLeft |-> TMap(transform, pixelToScreenCoords(RBottomLeft(bounds))),
                  bottomRight |-> TMap(transform, pixelToScreenCoords(RBottomRight(bounds))),
                  center |-> TMap(transform, pixelToScreenCoords(RCenter(bounds))),
                  handleRotation |-> objs[first].rotation]
        ELSE [topLeft |-> RTopLeft(boundingRect), topRight |-> RTopRight(boundingRect),
              bottomLeft |-> RBottomLeft(boundingRect),
              bottomRight |-> RBottomRight(boundingRect),
              center |-> RCenter(boundingRect), handleRotation |-> 0]

PlaceHandles(h, f) ==
    LET top == Mid(f.topLeft, f.topRight)
        left == Mid(f.topLeft, f.bottomLeft)
        right == Mid(f.topRight, f.bottomRight)
        bottom == Mid(f.bottomLeft, f.bottomRight)
    IN  [h EXCEPT
           !.originPos = f.center,
           !.rotatePos = [a \in CornerAnchors |->
                CASE a = "TopLeft" -> f.topLeft [] a = "TopRight" -> f.topRight
                  [] a = "BottomLeft" -> f.bottomLeft [] a = "BottomRight" -> f.bottomRight],
           !.resizePos = [a \in Anchors |->
                CASE a = "TopLeft" -> f.topLeft [] a = "TopRight" -> f.topRight
                  [] a = "BottomLeft" -> f.bottomLeft [] a = "BottomRight" -> f.bottomRight
                  [] a = "Top" -> top [] a = "Left" -> left
                  [] a = "Right" -> right [] a = "Bottom" -> bottom],
           !.resizeOrigin = [a \in Anchors |->
                CASE a = "TopLeft" -> f.bottomRight [] a = "TopRight" -> f.bottomLeft
                  [] a = "BottomLeft" -> f.topRight [] a = "BottomRight" -> f.topLeft
                  [] a = "Top" -> bottom [] a = "Left" -> right
                  [] a = "Right" -> left [] a = "Bottom" -> top],
           !.rotation = f.handleRotation]

\* A variant of updateHandles() that places the handles in every action
updateHandlesInAnyAction(h, action, mode, objs, selection) ==
    IF selection # {}
    THEN updateHandleVisibility(PlaceHandles(h, HandleFrame(objs, selection)),
                                action, mode, selection)
    ELSE updateHandleVisibility(h, action, mode, selection)

\* updateHandles(): nothing while an object gesture runs
updateHandles(h, action, mode, objs, selection) ==
    IF action \in Gestures THEN h
    ELSE IF selection # {}
         THEN updateHandleVisibility(PlaceHandles(h, HandleFrame(objs, selection)),
                                     action, mode, selection)
         ELSE updateHandleVisibility(h, action, mode, selection)

\* ResizeHandle constructor: the edge handles limit one axis
resizingLimitHorizontal(anchor) == anchor \in {"Top", "Bottom"}
resizingLimitVertical(anchor) == anchor \in {"Left", "Right"}

\* ------------------------------------------------------------- the tool as a record
\* The handlers below are functions from the tool's fields (and the document
\* state they change) to the same after the handler.
Tool ==
    [mAction |-> mAction, mMode |-> mMode, mStart |-> mStart, mOrigin |-> mOrigin,
     mAlignPosition |-> mAlignPosition, mMovingObjects |-> mMovingObjects,
     mResizingLimitHorizontal |-> mResizingLimitHorizontal,
     mResizingLimitVertical |-> mResizingLimitVertical,
     mClickedObjectItem |-> mClickedObjectItem,
     mClickedRotateHandle |-> mClickedRotateHandle,
     mClickedResizeHandle |-> mClickedResizeHandle,
     selectionRectangleShown |-> selectionRectangleShown,
     objects |-> objects, present |-> present, selectedObjects |-> selectedObjects,
     handles |-> handles, undoStack |-> undoStack]

Becomes(t) ==
    /\ mAction' = t.mAction
    /\ mMode' = t.mMode
    /\ mStart' = t.mStart
    /\ mOrigin' = t.mOrigin
    /\ mAlignPosition' = t.mAlignPosition
    /\ mMovingObjects' = t.mMovingObjects
    /\ mResizingLimitHorizontal' = t.mResizingLimitHorizontal
    /\ mResizingLimitVertical' = t.mResizingLimitVertical
    /\ mClickedObjectItem' = t.mClickedObjectItem
    /\ mClickedRotateHandle' = t.mClickedRotateHandle
    /\ mClickedResizeHandle' = t.mClickedResizeHandle
    /\ selectionRectangleShown' = t.selectionRectangleShown
    /\ objects' = t.objects
    /\ present' = t.present
    /\ selectedObjects' = t.selectedObjects
    /\ handles' = t.handles
    /\ undoStack' = t.undoStack

\* MapScene::setSelectedObjectItems: the document's selection changes and the
\* scene's selectedObjectItemsChanged signal runs updateHandles()
setSelectedObjectItems(t, items) ==
    [t EXCEPT !.selectedObjects = items,
              !.handles = updateHandles(t.handles, t.mAction, t.mMode, t.objects, items)]

setMode(t, mode) ==
    IF t.mMode # mode
    THEN [t EXCEPT !.mMode = mode,
                   !.handles = updateHandles(t.handles, t.mAction, mode, t.objects,
                                             t.selectedObjects)]
    ELSE t

saveSelectionState(t) ==
    LET items == SortedSeq(t.selectedObjects)
    IN  [t EXCEPT !.mMovingObjects =
            [k \in DOMAIN items |->
                [item |-> items[k],
                 oldItemPosition |-> t.objects[items[k]].itemPos,
                 oldPosition |-> t.objects[items[k]].position,
                 oldSize |-> t.objects[items[k]].size,
                 oldPolygon |-> t.objects[items[k]].polygon,
                 oldRotation |-> t.objects[items[k]].rotation]]]

\* ------------------------------------------------------------- undo commands
MoveMapObject(o, oldPos) == [kind |-> "Move", object |-> o, old |-> oldPos]
RotateMapObject(o, oldRotation) == [kind |-> "Rotate", object |-> o, old |-> oldRotation]
ResizeMapObject(o, oldSize) == [kind |-> "Resize", object |-> o, old |-> oldSize]
ChangePolygon(o, oldPolygon) == [kind |-> "Polygon", object |-> o, old |-> oldPolygon]
\* by: history, "gesture" or "key": what pushed the macro
Macro(text, by, commands) == [text |-> text, by |-> by, commands |-> commands]

RECURSIVE Flatten(_)
Flatten(ss) == IF ss = <<>> THEN <<>> ELSE Head(ss) \o Flatten(Tail(ss))

\* ------------------------------------------------------------- selecting
\* QGraphicsScene::items(rect): the objects whose bounds meet the rectangle
RIntersects(a, b) ==
    /\ a.x <= b.x + b.w /\ b.x <= a.x + a.w
    /\ a.y <= b.y + b.h /\ b.y <= a.y + a.h
RNormalized(a, b) ==
    Rect(Min2(a[1], b[1]), Min2(a[2], b[2]), Abs(a[1] - b[1]), Abs(a[2] - b[2]))
itemsIn(t, rect) ==
    {o \in t.present : RIntersects(rect, objectBounds(o, t.objects[o],
                                                       objectTransform(t.objects[o])))}

updateSelection(t, pos, modifiers) ==
    LET n == RNormalized(t.mStart, pos)
        rect == Rect(n.x, n.y, Max2(Px(1), n.w), Max2(Px(1), n.h))
        found == itemsIn(t, rect)
    IN  IF modifiers \cap {"Control", "Shift"} # {}
        THEN setSelectedObjectItems(t, found \cup t.selectedObjects)
        ELSE setSelectedObjectItems(setMode(t, "Resize"), found)

startSelecting(t) ==
    [t EXCEPT !.mAction = "Selecting", !.selectionRectangleShown = TRUE]

\* ------------------------------------------------------------- moving
\* A variant of startMoving() that does not look at Alt
startMovingIgnoringAlt(t, modifiers, junk) ==
    LET sel == IF t.mClickedObjectItem # 0
                  /\ t.mClickedObjectItem \notin t.selectedObjects
               THEN setSelectedObjectItems(t, {t.mClickedObjectItem})
               ELSE t
        saved == saveSelectionState(sel)
        snap == saved.mMovingObjects
        xs == {snap[k].oldPosition[1] : k \in DOMAIN snap}
        ys == {snap[k].oldPosition[2] : k \in DOMAIN snap}
    IN  [saved EXCEPT
            !.mAction = "Moving",
            !.mAlignPosition = IF snap = <<>> THEN junk
                               ELSE <<CHOOSE m \in xs : \A v \in xs : m <= v,
                                      CHOOSE m \in ys : \A v \in ys : m <= v>>,
            !.handles = updateHandleVisibility(saved.handles, "Moving", saved.mMode,
                                               saved.selectedObjects)]

\* QList::first() of an empty snapshot reads no element: junk stands for
\* whatever that read yields.
startMoving(t, modifiers, junk) ==
    LET sel == IF t.mClickedObjectItem # 0 /\ "Alt" \notin modifiers
                  /\ t.mClickedObjectItem \notin t.selectedObjects
               THEN setSelectedObjectItems(t, {t.mClickedObjectItem})
               ELSE t
        saved == saveSelectionState(sel)
        snap == saved.mMovingObjects
        xs == {snap[k].oldPosition[1] : k \in DOMAIN snap}
        ys == {snap[k].oldPosition[2] : k \in DOMAIN snap}
    IN  [saved EXCEPT
            !.mAction = "Moving",
            !.mAlignPosition = IF snap = <<>> THEN junk
                               ELSE <<CHOOSE m \in xs : \A v \in xs : m <= v,
                                      CHOOSE m \in ys : \A v \in ys : m <= v>>,
            !.handles = updateHandleVisibility(saved.handles, "Moving", saved.mMode,
                                               saved.selectedObjects)]

snapToGrid(t, diff, modifiers) ==
    IF SnapHelperSnaps("Control" \in modifiers)
    THEN LET alignScreenPos == pixelToScreenCoords(t.mAlignPosition)
             newAlignScreenPos == PAdd(alignScreenPos, diff)
             newAlignPixelPos == SnapHelperSnap("Control" \in modifiers,
                                                screenToPixelCoords(newAlignScreenPos))
         IN  PSub(pixelToScreenCoords(newAlignPixelPos), alignScreenPos)
    ELSE diff

SnapshotItems(t) == {t.mMovingObjects[k].item : k \in DOMAIN t.mMovingObjects}
SnapshotOf(t, o) ==
    t.mMovingObjects[CHOOSE k \in DOMAIN t.mMovingObjects : t.mMovingObjects[k].item = o]

\* A variant of updateMovingItems() that displaces the items from where they
\* are instead of from where the snapshot has them
updateMovingItemsFromLive(t, pos, modifiers) ==
    LET diff == snapToGrid(t, PSub(pos, t.mStart), modifiers)
    IN  [t EXCEPT !.objects =
            [o \in Objects |->
                IF o \in SnapshotItems(t)
                THEN LET newPixelPos == PAdd(t.objects[o].itemPos, diff)
                     IN  [t.objects[o] EXCEPT !.itemPos = newPixelPos,
                                              !.position = screenToPixelCoords(newPixelPos)]
                ELSE t.objects[o]]]

\* A variant of updateMovingItems() that snaps the position of every object
\* instead of the alignment reference point
updateMovingItemsSnappingEach(t, pos, modifiers) ==
    [t EXCEPT !.objects =
        [o \in Objects |->
            IF o \in SnapshotItems(t)
            THEN LET moved == PAdd(SnapshotOf(t, o).oldItemPosition, PSub(pos, t.mStart))
                     newPixelPos == pixelToScreenCoords(
                                        SnapHelperSnap("Control" \in modifiers,
                                                       screenToPixelCoords(moved)))
                 IN  [t.objects[o] EXCEPT !.itemPos = newPixelPos,
                                          !.position = screenToPixelCoords(newPixelPos)]
            ELSE t.objects[o]]]

updateMovingItems(t, pos, modifiers) ==
    LET diff == snapToGrid(t, PSub(pos, t.mStart), modifiers)
    IN  [t EXCEPT !.objects =
            [o \in Objects |->
                IF o \in SnapshotItems(t)
                THEN LET newPixelPos == PAdd(SnapshotOf(t, o).oldItemPosition, diff)
                     IN  [t.objects[o] EXCEPT !.itemPos = newPixelPos,
                                              !.position = screenToPixelCoords(newPixelPos)]
                ELSE t.objects[o]]]

\* A variant of finishMoving() without the test of mStart against pos
finishMovingAlways(t, pos) ==
    [t EXCEPT
        !.mAction = "NoAction",
        !.handles = updateHandles(t.handles, "NoAction", t.mMode, t.objects,
                                  t.selectedObjects),
        !.undoStack = Append(t.undoStack,
            Macro("Move", "gesture", [k \in DOMAIN t.mMovingObjects |->
                MoveMapObject(t.mMovingObjects[k].item,
                              t.mMovingObjects[k].oldPosition)])),
        !.mMovingObjects = <<>>]

finishMoving(t, pos) ==
    LET done == [t EXCEPT !.mAction = "NoAction",
                          !.handles = updateHandles(t.handles, "NoAction", t.mMode,
                                                    t.objects, t.selectedObjects)]
    IN  IF t.mStart = pos THEN done
        ELSE [done EXCEPT
                !.undoStack = Append(t.undoStack,
                    Macro("Move", "gesture", [k \in DOMAIN t.mMovingObjects |->
                        MoveMapObject(t.mMovingObjects[k].item,
                                      t.mMovingObjects[k].oldPosition)])),
                !.mMovingObjects = <<>>]

\* ------------------------------------------------------------- rotating
startRotating(t) ==
    LET started == [t EXCEPT !.mAction = "Rotating", !.mOrigin = t.handles.originPos]
        saved == saveSelectionState(started)
    IN  [saved EXCEPT !.handles = updateHandleVisibility(saved.handles, "Rotating",
                                                         saved.mMode, saved.selectedObjects)]

\* std::atan2(0, 0) is 0, the angle of the positive x axis
Direction(v) == IF v = <<0, 0>> THEN <<1, 0>> ELSE v
Cross(a, b) == a[1] * b[2] - a[2] * b[1]
Dot(a, b) == a[1] * b[1] + a[2] * b[2]
\* The two directions are a multiple of 90 degrees apart
AngleIsExact(startDiff, currentDiff) ==
    \/ Cross(Direction(startDiff), Direction(currentDiff)) = 0
    \/ Dot(Direction(startDiff), Direction(currentDiff)) = 0
\* atan2(currentDiff) - atan2(startDiff) in degrees, both angles in (-180, 180]
AngleDiff(startDiff, currentDiff) ==
    LET sd == Direction(startDiff)
        cd == Direction(currentDiff)
        k == CASE Cross(sd, cd) = 0 /\ Dot(sd, cd) > 0 -> 0
               [] Dot(sd, cd) = 0 /\ Cross(sd, cd) > 0 -> 1
               [] Cross(sd, cd) = 0 /\ Dot(sd, cd) < 0 -> 2
               [] Dot(sd, cd) = 0 /\ Cross(sd, cd) < 0 -> 3
        noWrap == CASE k = 0 -> TRUE
                    [] k = 1 -> ~(sd[1] < 0 /\ sd[2] > 0)
                    [] k = 2 -> sd[2] < 0 \/ (sd[2] = 0 /\ sd[1] > 0)
                    [] k = 3 -> sd[2] < 0 /\ sd[1] <= 0
    IN  IF noWrap THEN 90 * k ELSE 90 * k - 360
\* std::atan2 in hundredths of a degree, for the directions of the table,
\* which holds the first half quadrant
RECURSIVE Gcd(_, _)
Gcd(a, b) == IF b = 0 THEN a ELSE Gcd(b, a % b)
Reduced(v) == <<Abs(v[1]) \div Gcd(Abs(v[1]), Abs(v[2])),
                Abs(v[2]) \div Gcd(Abs(v[1]), Abs(v[2]))>>
AtanDirections ==
    {<<1, 0>>, <<1, 1>>, <<2, 1>>, <<3, 1>>, <<3, 2>>, <<4, 1>>, <<4, 3>>,
     <<5, 1>>, <<5, 2>>, <<5, 3>>, <<5, 4>>, <<6, 1>>, <<6, 5>>}
AngleIsKnown(v) ==
    IF v = <<0, 0>> THEN TRUE
    ELSE <<Max2(Reduced(v)[1], Reduced(v)[2]), Min2(Reduced(v)[1], Reduced(v)[2])>>
            \in AtanDirections
AtanTable(v) ==
    CASE v = <<1, 0>> -> 0 [] v = <<1, 1>> -> 4500 [] v = <<2, 1>> -> 2657
      [] v = <<3, 1>> -> 1843 [] v = <<3, 2>> -> 3369 [] v = <<4, 1>> -> 1404
      [] v = <<4, 3>> -> 3687 [] v = <<5, 1>> -> 1131 [] v = <<5, 2>> -> 2180
      [] v = <<5, 3>> -> 3096 [] v = <<5, 4>> -> 3866 [] v = <<6, 1>> -> 946
      [] v = <<6, 5>> -> 3981
Atan2(y, x) ==
    IF x = 0 /\ y = 0 THEN 0
    ELSE LET r == Reduced(<<x, y>>)
             base == IF r[2] <= r[1] THEN AtanTable(r) ELSE 9000 - AtanTable(<<r[2], r[1]>>)
         IN  CASE x >= 0 /\ y >= 0 -> base
               [] x < 0 /\ y >= 0 -> 18000 - base
               [] x < 0 /\ y < 0 -> base - 18000
               [] x >= 0 /\ y < 0 -> -base
\* currentAngle - startAngle, in hundredths of a degree
RawAngleDiff(startDiff, currentDiff) ==
    Atan2(currentDiff[2], currentDiff[1]) - Atan2(startDiff[2], startDiff[1])
\* A variant of the snap without the half step: floor(angleDiff / snap) * snap
SnapAngleDown(angle) == (angle \div 1500) * 1500
\* std::floor((angleDiff + snap / 2) / snap) * snap with snap = 15 degrees, in
\* hundredths of a degree
SnapAngle(angle) == ((angle + 750) \div 1500) * 1500

\* angleDiff in degrees
RotatingAngle(t, pos, modifiers) ==
    LET startDiff == PSub(t.mOrigin, t.mStart)
        currentDiff == PSub(t.mOrigin, pos)
    IN  IF "Control" \notin modifiers THEN AngleDiff(startDiff, currentDiff)
        ELSE IF AngleIsExact(startDiff, currentDiff)
        THEN SnapAngle(100 * AngleDiff(startDiff, currentDiff)) \div 100
        ELSE SnapAngle(RawAngleDiff(startDiff, currentDiff)) \div 100
\* The update is exact when the angle is a multiple of 90 degrees, before
\* snapping or after it
RotatingIsExact(t, pos, modifiers) ==
    \/ AngleIsExact(PSub(t.mOrigin, t.mStart), PSub(t.mOrigin, pos))
    \/ /\ "Control" \in modifiers
       /\ AngleIsKnown(PSub(t.mOrigin, t.mStart))
       /\ AngleIsKnown(PSub(t.mOrigin, pos))
       /\ RotatingAngle(t, pos, modifiers) % 90 = 0

updateRotatingItems(t, pos, modifiers) ==
    LET angleDiff == RotatingAngle(t, pos, modifiers)
    IN  [t EXCEPT !.objects =
            [o \in Objects |->
                IF o \in SnapshotItems(t)
                THEN LET oldRelPos == PSub(SnapshotOf(t, o).oldItemPosition, t.mOrigin)
                         newPixelPos == PAdd(t.mOrigin, RotateVec(angleDiff, oldRelPos))
                     IN  [t.objects[o] EXCEPT
                            !.itemPos = newPixelPos,
                            !.position = screenToPixelCoords(newPixelPos),
                            !.rotation = SnapshotOf(t, o).oldRotation + angleDiff]
                ELSE t.objects[o]]]

\* A variant of finishRotating() that pushes no RotateMapObject
finishRotatingPositionOnly(t, pos) ==
    LET done == [t EXCEPT !.mAction = "NoAction",
                          !.handles = updateHandles(t.handles, "NoAction", t.mMode,
                                                    t.objects, t.selectedObjects)]
    IN  IF t.mStart = pos THEN done
        ELSE [done EXCEPT
                !.undoStack = Append(t.undoStack,
                    Macro("Rotate", "gesture", [k \in DOMAIN t.mMovingObjects |->
                        MoveMapObject(t.mMovingObjects[k].item,
                                      t.mMovingObjects[k].oldPosition)])),
                !.mMovingObjects = <<>>]

finishRotating(t, pos) ==
    LET done == [t EXCEPT !.mAction = "NoAction",
                          !.handles = updateHandles(t.handles, "NoAction", t.mMode,
                                                    t.objects, t.selectedObjects)]
    IN  IF t.mStart = pos THEN done
        ELSE [done EXCEPT
                !.undoStack = Append(t.undoStack,
                    Macro("Rotate", "gesture", Flatten([k \in DOMAIN t.mMovingObjects |->
                        <<MoveMapObject(t.mMovingObjects[k].item,
                                        t.mMovingObjects[k].oldPosition),
                          RotateMapObject(t.mMovingObjects[k].item,
                                          t.mMovingObjects[k].oldRotation)>>]))),
                !.mMovingObjects = <<>>]

\* ------------------------------------------------------------- removal of objects
\* A variant of objectsRemoved() that sets the positions back and leaves the
\* rotations
objectsRemovedKeepingRotation(t, removed) ==
    IF t.mAction # "Moving" /\ t.mAction # "Rotating" THEN t
    ELSE [t EXCEPT
            !.objects =
                [o \in Objects |->
                    IF o \in SnapshotItems(t) /\ o \notin removed
                    THEN [t.objects[o] EXCEPT
                            !.position = SnapshotOf(t, o).oldPosition,
                            !.itemPos = SnapshotOf(t, o).oldItemPosition]
                    ELSE t.objects[o]],
            !.mMovingObjects = <<>>]

objectsRemoved(t, removed) ==
    IF t.mAction # "Moving" /\ t.mAction # "Rotating" THEN t
    ELSE [t EXCEPT
            !.objects =
                [o \in Objects |->
                    IF o \in SnapshotItems(t) /\ o \notin removed
                    THEN [t.objects[o] EXCEPT
                            !.position = SnapshotOf(t, o).oldPosition,
                            !.itemPos = SnapshotOf(t, o).oldItemPosition,
                            !.rotation = IF t.mAction = "Rotating"
                                         THEN SnapshotOf(t, o).oldRotation
                                         ELSE t.objects[o].rotation]
                    ELSE t.objects[o]],
            !.mMovingObjects = <<>>]

\* ------------------------------------------------------------- resizing
startResizing(t) ==
    LET started == [t EXCEPT
            !.mAction = "Resizing",
            !.mOrigin = t.handles.originPos,
            !.mResizingLimitHorizontal = resizingLimitHorizontal(t.mClickedResizeHandle),
            !.mResizingLimitVertical = resizingLimitVertical(t.mClickedResizeHandle),
            !.mStart = t.handles.resizePos[t.mClickedResizeHandle]]
        saved == saveSelectionState(started)
    IN  [saved EXCEPT !.handles = updateHandleVisibility(saved.handles, "Resizing",
                                                         saved.mMode, saved.selectedObjects)]

\* Scale factors are fractions n / d with d >= 0; d = 0 is +infinity, what a
\* positive number divided by zero gives.
Fraction(n, d) == [n |-> n, d |-> d]
One == Fraction(1, 1)
OneHundredth == Fraction(1, 100)
Infinity == Fraction(1, 0)
FLess(a, b) == a.n * b.d < b.n * a.d
qMin(a, b) == IF FLess(a, b) THEN a ELSE b
qMax(a, b) == IF FLess(a, b) THEN b ELSE a
\* qMax((qreal)0.01, num / den): a negative quotient, minus infinity and NaN
\* (0 / 0) all give 0.01
ScaleRatio(num, den) ==
    IF den = 0 THEN (IF num > 0 THEN Infinity ELSE OneHundredth)
    ELSE qMax(OneHundredth, IF den < 0 THEN Fraction(-num, -den) ELSE Fraction(num, den))
Scaled(v, f) == (v * f.n) \div f.d
ScaledExactly(v, f) == f.d # 0 /\ (v * f.n) % f.d = 0
IsEven(v) == v % 2 = 0
OnWholePixels(ob) ==
    /\ IsEven(ob.position[1]) /\ IsEven(ob.position[2])
    /\ IsEven(ob.size[1]) /\ IsEven(ob.size[2])
    /\ \A k \in DOMAIN ob.polygon : IsEven(ob.polygon[k][1]) /\ IsEven(ob.polygon[k][2])

ResizingOrigin(t, modifiers) ==
    IF "Shift" \in modifiers THEN t.mOrigin
    ELSE t.handles.resizeOrigin[t.mClickedResizeHandle]
\* SnapHelper snapHelper(renderer): Alt toggles the snap preference
SnappedScreenPos(pos, modifiers) ==
    pixelToScreenCoords(SnapHelperSnap("Alt" \in modifiers, screenToPixelCoords(pos)))

\* A variant of the scale that takes the larger of the two ratios of a corner
\* handle
MultiScaleLarger(t, resizingOrigin, snappedScreenPos) ==
    LET diff == PSub(snappedScreenPos, resizingOrigin)
        startDiff == PSub(t.mStart, resizingOrigin)
    IN  IF t.mResizingLimitHorizontal THEN ScaleRatio(diff[2], startDiff[2])
        ELSE IF t.mResizingLimitVertical THEN ScaleRatio(diff[1], startDiff[1])
        ELSE qMax(ScaleRatio(diff[1], startDiff[1]), ScaleRatio(diff[2], startDiff[2]))

\* The scale of the multi-object path (lines 1063-1071)
MultiScale(t, resizingOrigin, snappedScreenPos) ==
    LET diff == PSub(snappedScreenPos, resizingOrigin)
        startDiff == PSub(t.mStart, resizingOrigin)
    IN  IF t.mResizingLimitHorizontal THEN ScaleRatio(diff[2], startDiff[2])
        ELSE IF t.mResizingLimitVertical THEN ScaleRatio(diff[1], startDiff[1])
        ELSE qMin(ScaleRatio(diff[1], startDiff[1]), ScaleRatio(diff[2], startDiff[2]))

ScaledPolygonPoint(oldPoint, rotation, scale) ==
    LET rotPoint == RotateVec(rotation, oldPoint)
        scaledPoint == <<Scaled(rotPoint[1], scale), Scaled(rotPoint[2], scale)>>
    IN  RotateVec(-rotation, scaledPoint)

\* A variant of the multi-object path that leaves the axis an edge handle
\* limits unscaled
updateResizingMultipleItemsLimitingAxis(t, resizingOrigin, snappedScreenPos) ==
    LET scale == MultiScale(t, resizingOrigin, snappedScreenPos)
        scaleX == IF t.mResizingLimitHorizontal THEN One ELSE scale
        scaleY == IF t.mResizingLimitVertical THEN One ELSE scale
    IN  [t EXCEPT !.objects =
            [o \in Objects |->
                IF o \in SnapshotItems(t)
                THEN LET m == SnapshotOf(t, o)
                         oldRelPos == PSub(m.oldItemPosition, resizingOrigin)
                         newScreenPos == PAdd(resizingOrigin,
                                              <<Scaled(oldRelPos[1], scaleX),
                                                Scaled(oldRelPos[2], scaleY)>>)
                     IN  [position |-> screenToPixelCoords(newScreenPos),
                          itemPos |-> newScreenPos,
                          size |-> <<Scaled(m.oldSize[1], scaleX),
                                     Scaled(m.oldSize[2], scaleY)>>,
                          polygon |->
                             IF t.objects[o].polygon # <<>>
                             THEN [n \in DOMAIN m.oldPolygon |->
                                     ScaledPolygonPoint(m.oldPolygon[n],
                                                        t.objects[o].rotation, scale)]
                             ELSE t.objects[o].polygon,
                          rotation |-> t.objects[o].rotation]
                ELSE t.objects[o]]]

updateResizingMultipleItems(t, resizingOrigin, snappedScreenPos) ==
    LET scale == MultiScale(t, resizingOrigin, snappedScreenPos)
    IN  [t EXCEPT !.objects =
            [o \in Objects |->
                IF o \in SnapshotItems(t)
                THEN LET m == SnapshotOf(t, o)
                         oldRelPos == PSub(m.oldItemPosition, resizingOrigin)
                         newScreenPos == PAdd(resizingOrigin,
                                              <<Scaled(oldRelPos[1], scale),
                                                Scaled(oldRelPos[2], scale)>>)
                     IN  [position |-> screenToPixelCoords(newScreenPos),
                          itemPos |-> newScreenPos,
                          size |-> <<Scaled(m.oldSize[1], scale), Scaled(m.oldSize[2], scale)>>,
                          polygon |->
                             IF t.objects[o].polygon # <<>>
                             THEN [n \in DOMAIN m.oldPolygon |->
                                     ScaledPolygonPoint(m.oldPolygon[n],
                                                        t.objects[o].rotation, scale)]
                             ELSE t.objects[o].polygon,
                          rotation |-> t.objects[o].rotation]
                ELSE t.objects[o]]]

MultipleItemsExact(t, resizingOrigin, snappedScreenPos) ==
    LET scale == MultiScale(t, resizingOrigin, snappedScreenPos)
    IN  \A o \in SnapshotItems(t) :
            LET m == SnapshotOf(t, o)
                oldRelPos == PSub(m.oldItemPosition, resizingOrigin)
            IN  /\ \A i \in 1 .. 2 : ScaledExactly(oldRelPos[i], scale)
                                     /\ ScaledExactly(m.oldSize[i], scale)
                /\ \A n \in DOMAIN m.oldPolygon :
                      \A i \in 1 .. 2 : ScaledExactly(m.oldPolygon[n][i], scale)

\* The two scale factors of the single-object path (lines 1193-1207)
SingleScale(t, relPos, startDiff, preserveAspect) ==
    LET w == ScaleRatio(relPos[1], startDiff[1])
        h == ScaleRatio(relPos[2], startDiff[2])
    IN  IF t.mResizingLimitHorizontal
        THEN [w |-> IF preserveAspect THEN h ELSE One, h |-> h]
        ELSE IF t.mResizingLimitVertical
        THEN [w |-> w, h |-> IF preserveAspect THEN w ELSE One]
        ELSE IF preserveAspect
        THEN [w |-> qMin(w, h), h |-> qMin(w, h)]
        ELSE [w |-> w, h |-> h]

\* A variant of the direct path that puts the dragged edges at the pointer
\* whichever side of the origin it is on
DirectBoundsUnclamped(anchor, alignment, oldPos, oldSize, pos, origin) ==
    LET aligned == align(RectOf(oldPos, oldSize), alignment)
        horizontal ==
            IF anchor \in {"Left", "TopLeft", "BottomLeft"}
            THEN RSetLeft(aligned, pos[1])
            ELSE IF anchor \in {"Right", "TopRight", "BottomRight"}
            THEN RSetRight(aligned, pos[1])
            ELSE aligned
        vertical ==
            IF anchor \in {"Top", "TopLeft", "TopRight"}
            THEN RSetTop(horizontal, pos[2])
            ELSE IF anchor \in {"Bottom", "BottomLeft", "BottomRight"}
            THEN RSetBottom(horizontal, pos[2])
            ELSE horizontal
    IN  unalign(vertical, alignment)

\* The bounds of the direct path (lines 1157-1188)
DirectBounds(anchor, alignment, oldPos, oldSize, pos, origin) ==
    LET aligned == align(RectOf(oldPos, oldSize), alignment)
        horizontal ==
            IF anchor \in {"Left", "TopLeft", "BottomLeft"}
            THEN RSetLeft(aligned, Min2(pos[1], origin[1]))
            ELSE IF anchor \in {"Right", "TopRight", "BottomRight"}
            THEN RSetRight(aligned, Max2(pos[1], origin[1]))
            ELSE aligned
        vertical ==
            IF anchor \in {"Top", "TopLeft", "TopRight"}
            THEN RSetTop(horizontal, Min2(pos[2], origin[2]))
            ELSE IF anchor \in {"Bottom", "BottomLeft", "BottomRight"}
            THEN RSetBottom(horizontal, Max2(pos[2], origin[2]))
            ELSE horizontal
    IN  unalign(vertical, alignment)

UsesDirectPath(t, o, resizingOrigin, modifiers) ==
    /\ t.handles.resizeOrigin[t.mClickedResizeHandle] = resizingOrigin
    /\ ShapeOf(o) \in {"Rectangle", "Ellipse"}
    /\ "Control" \notin modifiers

\* The denominators of the scale ratios an update of Resizing computes: of
\* both axes in the scale path of a single object (lines 1193-1197), of the
\* axes the handle does not limit for several objects (lines 1063-1070)
ResizeDenominators(t, modifiers) ==
    LET resizingOrigin == ResizingOrigin(t, modifiers)
    IN  IF Len(t.mMovingObjects) = 1
        THEN LET m == t.mMovingObjects[1]
                 unrotate == rotateAt(m.oldItemPosition, -m.oldRotation)
                 startDiff == PSub(screenToPixelCoords(TMap(unrotate, t.mStart)),
                                   screenToPixelCoords(TMap(unrotate, resizingOrigin)))
             IN  IF UsesDirectPath(t, m.item, resizingOrigin, modifiers) THEN {}
                 ELSE {startDiff[1], startDiff[2]}
        ELSE LET startDiff == PSub(t.mStart, resizingOrigin)
             IN  IF t.mResizingLimitHorizontal THEN {startDiff[2]}
                 ELSE IF t.mResizingLimitVertical THEN {startDiff[1]}
                 ELSE {startDiff[1], startDiff[2]}

updateResizingSingleItem(t, resizingOrigin, screenPos, modifiers) ==
    LET m == t.mMovingObjects[1]
        o == m.item
        unrotate == rotateAt(m.oldItemPosition, -m.oldRotation)
        rotate == rotateAt(m.oldItemPosition, m.oldRotation)
        origin == screenToPixelCoords(TMap(unrotate, resizingOrigin))
        pos == screenToPixelCoords(TMap(unrotate, screenPos))
        start == screenToPixelCoords(TMap(unrotate, t.mStart))
        oldPos == m.oldPosition
        preserveAspect == "Control" \in modifiers
        direct == UsesDirectPath(t, o, resizingOrigin, modifiers)
        newBounds == DirectBounds(t.mClickedResizeHandle, AlignmentOf(o), oldPos,
                                  m.oldSize, pos, origin)
        f == SingleScale(t, PSub(pos, origin), PSub(start, origin), preserveAspect)
        oldRelPos == PSub(oldPos, origin)
        scaledPos == PAdd(origin, <<Scaled(oldRelPos[1], f.w), Scaled(oldRelPos[2], f.h)>>)
        newSize == IF direct THEN RSize(newBounds)
                   ELSE <<Scaled(m.oldSize[1], f.w), Scaled(m.oldSize[2], f.h)>>
        newPolygon == IF ~direct /\ m.oldPolygon # <<>>
                      THEN [n \in DOMAIN m.oldPolygon |->
                              <<Scaled(m.oldPolygon[n][1], f.w),
                                Scaled(m.oldPolygon[n][2], f.h)>>]
                      ELSE t.objects[o].polygon
        newPos == screenToPixelCoords(TMap(rotate, pixelToScreenCoords(
                      IF direct THEN RTopLeft(newBounds) ELSE scaledPos)))
    IN  [t EXCEPT !.objects[o] =
            [position |-> newPos, itemPos |-> pixelToScreenCoords(newPos),
             size |-> newSize, polygon |-> newPolygon,
             rotation |-> t.objects[o].rotation]]

SingleItemExact(t, resizingOrigin, screenPos, modifiers) ==
    LET m == t.mMovingObjects[1]
        unrotate == rotateAt(m.oldItemPosition, -m.oldRotation)
        origin == screenToPixelCoords(TMap(unrotate, resizingOrigin))
        pos == screenToPixelCoords(TMap(unrotate, screenPos))
        start == screenToPixelCoords(TMap(unrotate, t.mStart))
        f == SingleScale(t, PSub(pos, origin), PSub(start, origin), "Control" \in modifiers)
        oldRelPos == PSub(m.oldPosition, origin)
    IN  \/ UsesDirectPath(t, m.item, resizingOrigin, modifiers)
        \/ /\ ScaledExactly(oldRelPos[1], f.w) /\ ScaledExactly(oldRelPos[2], f.h)
           /\ ScaledExactly(m.oldSize[1], f.w) /\ ScaledExactly(m.oldSize[2], f.h)
           /\ \A n \in DOMAIN m.oldPolygon :
                 /\ ScaledExactly(m.oldPolygon[n][1], f.w)
                 /\ ScaledExactly(m.oldPolygon[n][2], f.h)

updateResizingItems(t, pos, modifiers) ==
    LET resizingOrigin == ResizingOrigin(t, modifiers)
        snappedScreenPos == SnappedScreenPos(pos, modifiers)
        shown == [t EXCEPT !.handles.originPos = resizingOrigin]
    IN  IF Len(t.mMovingObjects) = 1
        THEN updateResizingSingleItem(shown, resizingOrigin, snappedScreenPos, modifiers)
        ELSE updateResizingMultipleItems(shown, resizingOrigin, snappedScreenPos)

\* A variant of finishResizing() that pushes no ChangePolygon
finishResizingWithoutPolygon(t, pos) ==
    LET done == [t EXCEPT !.mAction = "NoAction",
                          !.handles = updateHandles(t.handles, "NoAction", t.mMode,
                                                    t.objects, t.selectedObjects)]
    IN  IF t.mStart = pos THEN done
        ELSE [done EXCEPT
                !.undoStack = Append(t.undoStack,
                    Macro("Resize", "gesture", Flatten([k \in DOMAIN t.mMovingObjects |->
                        <<MoveMapObject(t.mMovingObjects[k].item,
                                        t.mMovingObjects[k].oldPosition),
                          ResizeMapObject(t.mMovingObjects[k].item,
                                          t.mMovingObjects[k].oldSize)>>]))),
                !.mMovingObjects = <<>>]

\* A variant of finishResizing() that pushes a ChangePolygon for every object
finishResizingAlwaysPolygon(t, pos) ==
    LET done == [t EXCEPT !.mAction = "NoAction",
                          !.handles = updateHandles(t.handles, "NoAction", t.mMode,
                                                    t.objects, t.selectedObjects)]
    IN  IF t.mStart = pos THEN done
        ELSE [done EXCEPT
                !.undoStack = Append(t.undoStack,
                    Macro("Resize", "gesture", Flatten([k \in DOMAIN t.mMovingObjects |->
                        <<MoveMapObject(t.mMovingObjects[k].item,
                                        t.mMovingObjects[k].oldPosition),
                          ResizeMapObject(t.mMovingObjects[k].item,
                                          t.mMovingObjects[k].oldSize),
                          ChangePolygon(t.mMovingObjects[k].item,
                                        t.mMovingObjects[k].oldPolygon)>>]))),
                !.mMovingObjects = <<>>]

finishResizing(t, pos) ==
    LET done == [t EXCEPT !.mAction = "NoAction",
                          !.handles = updateHandles(t.handles, "NoAction", t.mMode,
                                                    t.objects, t.selectedObjects)]
    IN  IF t.mStart = pos THEN done
        ELSE [done EXCEPT
                !.undoStack = Append(t.undoStack,
                    Macro("Resize", "gesture", Flatten([k \in DOMAIN t.mMovingObjects |->
                        <<MoveMapObject(t.mMovingObjects[k].item,
                                        t.mMovingObjects[k].oldPosition),
                          ResizeMapObject(t.mMovingObjects[k].item,
                                          t.mMovingObjects[k].oldSize)>>
                        \o (IF t.mMovingObjects[k].oldPolygon # <<>>
                            THEN <<ChangePolygon(t.mMovingObjects[k].item,
                                                 t.mMovingObjects[k].oldPolygon)>>
                            ELSE <<>>)]))),
                !.mMovingObjects = <<>>]

\* ------------------------------------------------------------- keyboard
\* A variant of the step that does not look at Shift
MoveByOneUnit(key, modifiers) ==
    CASE key = "Up" -> <<0, -Px(1)>> [] key = "Down" -> <<0, Px(1)>>
      [] key = "Left" -> <<-Px(1), 0>> [] key = "Right" -> <<Px(1), 0>>

\* The fine-grid preference is off, so a fast move is one tile.
MoveBy(key, modifiers) ==
    LET unit == CASE key = "Up" -> <<0, -1>> [] key = "Down" -> <<0, 1>>
                  [] key = "Left" -> <<-1, 0>> [] key = "Right" -> <<1, 0>>
    IN  IF "Shift" \in modifiers
        THEN <<unit[1] * TileWidth, unit[2] * TileHeight>>
        ELSE <<unit[1] * Px(1), unit[2] * Px(1)>>

\* Pushing a MoveMapObject emits objectsChanged: the item follows its object
\* and updateHandles() runs.
keyPressed(t, key, modifiers) ==
    IF t.mAction # "NoAction" THEN t
    ELSE IF t.selectedObjects = {} \/ "Control" \in modifiers THEN t
    ELSE LET items == SortedSeq(t.selectedObjects)
             moved == [o \in Objects |->
                          IF o \in t.selectedObjects
                          THEN LET newPos == PAdd(t.objects[o].position,
                                                  MoveBy(key, modifiers))
                               IN  [t.objects[o] EXCEPT
                                      !.position = newPos,
                                      !.itemPos = pixelToScreenCoords(newPos)]
                          ELSE t.objects[o]]
         IN  [t EXCEPT
                !.objects = moved,
                !.undoStack = Append(t.undoStack,
                    Macro("Move", "key", [k \in DOMAIN items |->
                        MoveMapObject(items[k], t.objects[items[k]].position)])),
                !.handles = updateHandles(t.handles, t.mAction, t.mMode, moved,
                                          t.selectedObjects)]

\* ------------------------------------------------------------- pointer handlers
\* QCursor::pos() of a scene position: the view shows the scene at 200 %, so
\* that a device pixel is the model's unit (half a scene pixel) and
\* QApplication::startDragDistance() is DragPixels device pixels
CursorPos(p) == p
ChebyshevLength(p) == Max2(Abs(p[1]), Abs(p[2]))
InReach(handlePos, p) == ChebyshevLength(PSub(handlePos, p)) <= HandleReach

\* What QGraphicsScene::itemAt and topMostObjectItemAt can report for a press at p
PressTargets(p) ==
    {[kind |-> "rotate", anchor |-> a, object |-> 0] :
        a \in {c \in CornerAnchors : handles.rotateVisible /\ InReach(handles.rotatePos[c], p)}}
    \cup
    {[kind |-> "resize", anchor |-> a, object |-> 0] :
        a \in {c \in Anchors : handles.resizeVisible /\ InReach(handles.resizePos[c], p)}}
    \cup
    {[kind |-> "object", anchor |-> "none", object |-> o] :
        o \in {b \in present : RContains(objectBounds(b, objects[b], objectTransform(objects[b])), p)}}
    \cup
    {[kind |-> "nothing", anchor |-> "none", object |-> 0]}

\* A variant of mousePressed() without the test of the action
mousePressedInAnyAction(t, pos, target) ==
    [t EXCEPT
        !.mStart = pos,
        !.mClickedRotateHandle = IF target.kind = "rotate" THEN target.anchor ELSE "none",
        !.mClickedResizeHandle = IF target.kind = "resize" THEN target.anchor ELSE "none",
        !.mClickedObjectItem = IF target.kind \in {"rotate", "resize"}
                               THEN t.mClickedObjectItem
                               ELSE target.object]

mousePressed(t, pos, target) ==
    IF t.mAction # "NoAction" THEN t
    ELSE [t EXCEPT
            !.mStart = pos,
            !.mClickedRotateHandle = IF target.kind = "rotate" THEN target.anchor ELSE "none",
            !.mClickedResizeHandle = IF target.kind = "resize" THEN target.anchor ELSE "none",
            !.mClickedObjectItem = IF target.kind \in {"rotate", "resize"}
                                   THEN t.mClickedObjectItem
                                   ELSE target.object]

\* A variant of the dispatch that looks at the handles before the object
StartedGestureHandlesFirst(t, modifiers) ==
    IF t.mClickedRotateHandle # "none" THEN "Rotating"
    ELSE IF t.mClickedResizeHandle # "none" THEN "Resizing"
    ELSE IF (t.mClickedObjectItem # 0 \/ "Alt" \in modifiers) /\ "Shift" \notin modifiers
    THEN "Moving"
    ELSE "Selecting"

\* A variant of the dispatch that does not look at Shift
StartedGestureIgnoringShift(t, modifiers) ==
    IF t.mClickedObjectItem # 0 \/ "Alt" \in modifiers
    THEN "Moving"
    ELSE IF t.mClickedRotateHandle # "none" THEN "Rotating"
    ELSE IF t.mClickedResizeHandle # "none" THEN "Resizing"
    ELSE "Selecting"

\* The gesture a move past the drag distance starts (lines 451-463)
StartedGesture(t, modifiers) ==
    IF (t.mClickedObjectItem # 0 \/ "Alt" \in modifiers) /\ "Shift" \notin modifiers
    THEN "Moving"
    ELSE IF t.mClickedRotateHandle # "none" THEN "Rotating"
    ELSE IF t.mClickedResizeHandle # "none" THEN "Resizing"
    ELSE "Selecting"

\* Variants of the test of lines 448-451: without mAction == NoAction, and
\* without the drag distance
DragStartsInAnyAction(t, pressed, screenStart, pos) ==
    /\ pressed
    /\ ManhattanLength(PSub(screenStart, CursorPos(pos))) >= DragPixels
DragStartsAtOnce(t, pressed, screenStart, pos) ==
    /\ t.mAction = "NoAction"
    /\ pressed

DragStarts(t, pressed, screenStart, pos) ==
    /\ t.mAction = "NoAction"
    /\ pressed
    /\ ManhattanLength(PSub(screenStart, CursorPos(pos))) >= DragPixels

startGesture(t, modifiers, junk) ==
    CASE StartedGesture(t, modifiers) = "Moving" -> startMoving(t, modifiers, junk)
      [] StartedGesture(t, modifiers) = "Rotating" -> startRotating(t)
      [] StartedGesture(t, modifiers) = "Resizing" -> startResizing(t)
      [] StartedGesture(t, modifiers) = "Selecting" -> startSelecting(t)

\* The switch at the end of mouseMoved; the selection rectangle's geometry is
\* not kept
updateGesture(t, pos, modifiers) ==
    CASE t.mAction = "Selecting" -> t
      [] t.mAction = "Moving" -> updateMovingItems(t, pos, modifiers)
      [] t.mAction = "Rotating" -> updateRotatingItems(t, pos, modifiers)
      [] t.mAction = "Resizing" -> updateResizingItems(t, pos, modifiers)
      [] t.mAction = "NoAction" -> t

mouseMoved(t, pressed, screenStart, pos, modifiers, junk) ==
    updateGesture(IF DragStarts(t, pressed, screenStart, pos)
                  THEN startGesture(t, modifiers, junk)
                  ELSE t,
                  pos, modifiers)

\* The pointer positions for which the update is exact in this model
UpdateIsExact(t, pos, modifiers) ==
    CASE t.mAction = "Rotating" -> RotatingIsExact(t, pos, modifiers)
      [] t.mAction = "Resizing" ->
            IF Len(t.mMovingObjects) = 1
            THEN SingleItemExact(t, ResizingOrigin(t, modifiers),
                                 SnappedScreenPos(pos, modifiers), modifiers)
            ELSE MultipleItemsExact(t, ResizingOrigin(t, modifiers),
                                    SnappedScreenPos(pos, modifiers))
      [] OTHER -> TRUE

\* Variants of the NoAction case of mouseReleased(): one that takes only Shift
\* for the multi-select modifier, one that changes the mode only when the
\* clicked object is the whole selection, and one that does not set the mode
\* when it replaces the selection
clickReleasedShiftOnly(t, modifiers) ==
    IF t.mClickedRotateHandle # "none" \/ t.mClickedResizeHandle # "none" THEN t
    ELSE IF t.mClickedObjectItem # 0
    THEN IF "Shift" \in modifiers
         THEN setSelectedObjectItems(t,
                 IF t.mClickedObjectItem \in t.selectedObjects
                 THEN t.selectedObjects \ {t.mClickedObjectItem}
                 ELSE t.selectedObjects \cup {t.mClickedObjectItem})
         ELSE IF t.mClickedObjectItem \in t.selectedObjects
         THEN setSelectedObjectItems(setMode(t, IF t.mMode = "Resize"
                                                THEN "Rotate" ELSE "Resize"),
                                     t.selectedObjects)
         ELSE setSelectedObjectItems(setMode(t, "Resize"), {t.mClickedObjectItem})
    ELSE IF "Shift" \notin modifiers THEN setSelectedObjectItems(t, {})
    ELSE t
clickReleasedSoleOnly(t, modifiers) ==
    IF t.mClickedRotateHandle # "none" \/ t.mClickedResizeHandle # "none" THEN t
    ELSE IF t.mClickedObjectItem # 0
    THEN IF modifiers \cap {"Shift", "Control"} # {}
         THEN setSelectedObjectItems(t,
                 IF t.mClickedObjectItem \in t.selectedObjects
                 THEN t.selectedObjects \ {t.mClickedObjectItem}
                 ELSE t.selectedObjects \cup {t.mClickedObjectItem})
         ELSE IF t.mClickedObjectItem \in t.selectedObjects
         THEN setSelectedObjectItems(
                 IF t.selectedObjects = {t.mClickedObjectItem}
                 THEN setMode(t, IF t.mMode = "Resize" THEN "Rotate" ELSE "Resize")
                 ELSE t,
                 t.selectedObjects)
         ELSE setSelectedObjectItems(setMode(t, "Resize"), {t.mClickedObjectItem})
    ELSE IF "Shift" \notin modifiers THEN setSelectedObjectItems(t, {})
    ELSE t
clickReleasedKeepingMode(t, modifiers) ==
    IF t.mClickedRotateHandle # "none" \/ t.mClickedResizeHandle # "none" THEN t
    ELSE IF t.mClickedObjectItem # 0
    THEN IF modifiers \cap {"Shift", "Control"} # {}
         THEN setSelectedObjectItems(t,
                 IF t.mClickedObjectItem \in t.selectedObjects
                 THEN t.selectedObjects \ {t.mClickedObjectItem}
                 ELSE t.selectedObjects \cup {t.mClickedObjectItem})
         ELSE IF t.mClickedObjectItem \in t.selectedObjects
         THEN setSelectedObjectItems(setMode(t, IF t.mMode = "Resize"
                                                THEN "Rotate" ELSE "Resize"),
                                     t.selectedObjects)
         ELSE setSelectedObjectItems(t, {t.mClickedObjectItem})
    ELSE IF "Shift" \notin modifiers THEN setSelectedObjectItems(t, {})
    ELSE t

\* The NoAction case of mouseReleased() (lines 534-558)
clickReleased(t, modifiers) ==
    IF t.mClickedRotateHandle # "none" \/ t.mClickedResizeHandle # "none" THEN t
    ELSE IF t.mClickedObjectItem # 0
    THEN IF modifiers \cap {"Shift", "Control"} # {}
         THEN setSelectedObjectItems(t,
                 IF t.mClickedObjectItem \in t.selectedObjects
                 THEN t.selectedObjects \ {t.mClickedObjectItem}
                 ELSE t.selectedObjects \cup {t.mClickedObjectItem})
         ELSE IF t.mClickedObjectItem \in t.selectedObjects
         THEN setSelectedObjectItems(setMode(t, IF t.mMode = "Resize"
                                                THEN "Rotate" ELSE "Resize"),
                                     t.selectedObjects)
         ELSE setSelectedObjectItems(setMode(t, "Resize"), {t.mClickedObjectItem})
    ELSE IF "Shift" \notin modifiers THEN setSelectedObjectItems(t, {})
    ELSE t

\* A variant of mouseReleased() that leaves the clicked items recorded
mouseReleasedKeepingTargets(t, pos, modifiers) ==
    CASE t.mAction = "NoAction" -> clickReleased(t, modifiers)
      [] t.mAction = "Selecting" ->
           [updateSelection(t, pos, modifiers) EXCEPT
               !.selectionRectangleShown = FALSE, !.mAction = "NoAction"]
      [] t.mAction = "Moving" -> finishMoving(t, pos)
      [] t.mAction = "Rotating" -> finishRotating(t, pos)
      [] t.mAction = "Resizing" -> finishResizing(t, pos)

mouseReleased(t, pos, modifiers) ==
    LET handled ==
          CASE t.mAction = "NoAction" -> clickReleased(t, modifiers)
            [] t.mAction = "Selecting" ->
                 [updateSelection(t, pos, modifiers) EXCEPT
                     !.selectionRectangleShown = FALSE, !.mAction = "NoAction"]
            [] t.mAction = "Moving" -> finishMoving(t, pos)
            [] t.mAction = "Rotating" -> finishRotating(t, pos)
            [] t.mAction = "Resizing" -> finishResizing(t, pos)
    IN  [handled EXCEPT !.mClickedObjectItem = 0,
                        !.mClickedRotateHandle = "none",
                        !.mClickedResizeHandle = "none"]

\* History of a release with no gesture active: what had been clicked, the
\* modifiers of the release, and the selection and mode before it
NoClick ==
    [released |-> FALSE, object |-> 0, onHandle |-> FALSE, modifiers |-> {},
     selection |-> {}, mode |-> "Resize"]
ClickOf(modifiers) ==
    IF mAction = "NoAction"
    THEN [released |-> TRUE, object |-> mClickedObjectItem,
          onHandle |-> (mClickedRotateHandle # "none" \/ mClickedResizeHandle # "none"),
          modifiers |-> modifiers, selection |-> selectedObjects, mode |-> mMode]
    ELSE NoClick

\* ------------------------------------------------------------- initial state
\* The constructor; a QGraphicsItem is visible and at (0, 0) when created.
Init ==
    /\ activated = FALSE
    /\ mAction = "NoAction"
    /\ mMode = "Resize"
    /\ mMousePressed = FALSE
    /\ mStart = <<0, 0>>
    /\ mScreenStart = <<0, 0>>
    /\ mClickedObjectItem = 0
    /\ mClickedRotateHandle = "none"
    /\ mClickedResizeHandle = "none"
    /\ mResizingLimitHorizontal = FALSE
    /\ mResizingLimitVertical = FALSE
    /\ mOrigin = <<0, 0>>
    /\ mAlignPosition = <<0, 0>>
    /\ mMovingObjects = <<>>
    /\ selectionRectangleShown = FALSE
    /\ objects = [o \in Objects |-> WithItem(InitialObject(o))]
    /\ present = Objects
    /\ selectedObjects = {}
    /\ handles = [originPos |-> <<0, 0>>, originVisible |-> TRUE,
                  rotateVisible |-> TRUE, resizeVisible |-> TRUE,
                  rotatePos |-> [a \in CornerAnchors |-> <<0, 0>>],
                  resizePos |-> [a \in Anchors |-> <<0, 0>>],
                  resizeOrigin |-> [a \in Anchors |-> <<0, 0>>],
                  rotation |-> 0]
    /\ undoStack = <<>>
    /\ mousePos = <<0, 0>>
    /\ presses = 0
    /\ removals = 0
    /\ selectionChanges = 0
    /\ gestureBase = [o \in Objects |-> WithItem(InitialObject(o))]
    /\ lastClick = NoClick
    /\ ignoredPress = FALSE

\* The model follows the tool until MaxUndo macros are on the undo stack
Running == activated /\ Len(undoStack) < MaxUndo

\* ------------------------------------------------------------- actions
\* activate(scene): updateHandles(), then the handles join the scene
Activate ==
    /\ ~activated
    /\ activated' = TRUE
    /\ handles' = updateHandles(handles, mAction, mMode, objects, selectedObjects)
    /\ UNCHANGED <<mAction, mMode, mMousePressed, mStart, mScreenStart, mClickedObjectItem,
                   mClickedRotateHandle, mClickedResizeHandle, mResizingLimitHorizontal,
                   mResizingLimitVertical, mOrigin, mAlignPosition, mMovingObjects,
                   selectionRectangleShown, objects, present, selectedObjects, undoStack,
                   mousePos, presses, removals, selectionChanges, gestureBase>>
    /\ lastClick' = NoClick
    /\ ignoredPress' = FALSE

\* A press of the left button at pos, or a press of any button where the
\* pointer is while a gesture runs, which the handler ignores (lines 493-494)
MousePressed ==
    /\ Running
    /\ ~mMousePressed \/ mAction # "NoAction"
    /\ presses < MaxPresses
    /\ presses' = presses + 1
    /\ \E pos \in IF mAction = "NoAction" THEN PressPositions ELSE {mousePos} :
       \E target \in PressTargets(pos) :
       \E after \in {mousePressed(Tool, pos, target)} :
          /\ Becomes(after)
          /\ mMousePressed' = IF mAction = "NoAction" THEN TRUE ELSE mMousePressed
          /\ mScreenStart' = IF mAction = "NoAction" THEN CursorPos(pos) ELSE mScreenStart
          /\ mousePos' = pos
    /\ lastClick' = NoClick
    /\ ignoredPress' = (mAction # "NoAction")
    /\ UNCHANGED <<activated, removals, selectionChanges, gestureBase>>

\* mouseMoved(pos, modifiers), for the pointer positions the model follows;
\* junk is what QList::first() yields should the snapshot be empty
MouseMovedTo(pos, modifiers, junk) ==
    \E starts \in {DragStarts(Tool, mMousePressed, mScreenStart, pos)} :
    \E started \in {IF starts THEN startGesture(Tool, modifiers, junk) ELSE Tool} :
        /\ UpdateIsExact(started, pos, modifiers)
        /\ \E after \in {mouseMoved(Tool, mMousePressed, mScreenStart, pos,
                                    modifiers, junk)} :
              /\ \A o \in Objects : OnWholePixels(after.objects[o])
              /\ Becomes(after)
              /\ mousePos' = pos
              /\ gestureBase' = IF starts /\ started.mAction \in Gestures
                                THEN objects ELSE gestureBase

\* A pointer move with the left button held
MouseMoved ==
    /\ Running
    /\ mMousePressed
    /\ \E pos \in PointerPositions, modifiers \in ModifierSets :
       \E junk \in IF /\ DragStarts(Tool, mMousePressed, mScreenStart, pos)
                       /\ StartedGesture(Tool, modifiers) = "Moving"
                       /\ selectedObjects = {}
                       /\ (mClickedObjectItem = 0 \/ "Alt" \in modifiers)
                    THEN PressPositions ELSE {<<0, 0>>} :
          MouseMovedTo(pos, modifiers, junk)
    /\ lastClick' = NoClick
    /\ ignoredPress' = FALSE
    /\ UNCHANGED <<activated, mMousePressed, mScreenStart, presses, removals,
                   selectionChanges>>

\* The release of the left button, where the pointer is
MouseReleased ==
    /\ Running
    /\ mMousePressed
    /\ \E modifiers \in ModifierSets :
       \E after \in {mouseReleased(Tool, mousePos, modifiers)} :
          /\ Becomes(after)
          /\ lastClick' = ClickOf(modifiers)
    /\ ignoredPress' = FALSE
    /\ mMousePressed' = FALSE
    /\ UNCHANGED <<activated, mScreenStart, mousePos, presses, removals, selectionChanges, gestureBase>>

\* An arrow key that the handler does not ignore (lines 389-392 and 407-410)
KeyPressed ==
    /\ Running
    /\ mAction = "NoAction"
    /\ selectedObjects # {}
    /\ \E key \in ArrowKeys, modifiers \in ModifierSets :
          /\ "Control" \notin modifiers
          /\ \E after \in {keyPressed(Tool, key, modifiers)} : Becomes(after)
    /\ lastClick' = NoClick
    /\ ignoredPress' = FALSE
    /\ UNCHANGED <<activated, mMousePressed, mScreenStart, mousePos, presses, removals,
                   selectionChanges, gestureBase>>

\* The document removes objects: it deselects them, which runs
\* updateHandles(), and then emits objectsRemoved
ObjectsRemoved ==
    /\ Running
    /\ removals < MaxRemovals
    /\ removals' = removals + 1
    /\ UNCHANGED selectionChanges
    /\ \E removed \in SUBSET present :
          /\ removed # {}
          /\ \E deselected \in {setSelectedObjectItems(
                                    [Tool EXCEPT !.present = present \ removed],
                                    selectedObjects \ removed)} :
             \E after \in {objectsRemoved(deselected, removed)} : Becomes(after)
    /\ lastClick' = NoClick
    /\ ignoredPress' = FALSE
    /\ UNCHANGED <<activated, mMousePressed, mScreenStart, mousePos, presses, gestureBase>>

\* The selection is changed from outside the tool (select all, the objects dock)
SelectionChanged ==
    /\ Running
    /\ selectionChanges < MaxSelectionChanges
    /\ selectionChanges' = selectionChanges + 1
    /\ UNCHANGED removals
    /\ \E items \in SUBSET present :
          /\ items # selectedObjects
          /\ \E after \in {setSelectedObjectItems(Tool, items)} : Becomes(after)
    /\ lastClick' = NoClick
    /\ ignoredPress' = FALSE
    /\ UNCHANGED <<activated, mMousePressed, mScreenStart, mousePos, presses, gestureBase>>

Next ==
    \/ Activate
    \/ MousePressed
    \/ MouseMoved
    \/ MouseReleased
    \/ KeyPressed
    \/ ObjectsRemoved
    \/ SelectionChanged

Spec == Init /\ [][Next]_vars

\* ------------------------------------------------------------- one gesture on a wide canvas
\* A second specification follows one gesture over pointer positions that are
\* WideScale pixels apart, with the objects of the map WideScale times as
\* large, so that scale factors from 0.01 up to MaxWide and angles that are no
\* multiple of 15 degrees occur.  It starts after the press on a handle.
WideScale == 100
MaxWide == 3
WidePositions == {<<Px(i * WideScale), Px(j * WideScale)>> : i \in 0 .. MaxWide,
                                                             j \in 0 .. MaxWide}
Widened(ob) ==
    [position |-> <<ob.position[1] * WideScale, ob.position[2] * WideScale>>,
     size |-> <<ob.size[1] * WideScale, ob.size[2] * WideScale>>,
     polygon |-> [k \in DOMAIN ob.polygon |->
                    <<ob.polygon[k][1] * WideScale, ob.polygon[k][2] * WideScale>>],
     rotation |-> ob.rotation]
\* The tool after its construction, for a map that holds objs
ConstructedTool(objs) ==
    [mAction |-> "NoAction", mMode |-> "Resize", mStart |-> <<0, 0>>, mOrigin |-> <<0, 0>>,
     mAlignPosition |-> <<0, 0>>, mMovingObjects |-> <<>>,
     mResizingLimitHorizontal |-> FALSE, mResizingLimitVertical |-> FALSE,
     mClickedObjectItem |-> 0, mClickedRotateHandle |-> "none",
     mClickedResizeHandle |-> "none", selectionRectangleShown |-> FALSE,
     objects |-> objs, present |-> Objects, selectedObjects |-> {},
     handles |-> [originPos |-> <<0, 0>>, originVisible |-> TRUE,
                  rotateVisible |-> TRUE, resizeVisible |-> TRUE,
                  rotatePos |-> [a \in CornerAnchors |-> <<0, 0>>],
                  resizePos |-> [a \in Anchors |-> <<0, 0>>],
                  resizeOrigin |-> [a \in Anchors |-> <<0, 0>>],
                  rotation |-> 0],
     undoStack |-> <<>>]
\* The objects of the wide canvas; with flat, the rectangle has no size
WideObject(o, flat) ==
    IF flat /\ ShapeOf(o) = "Rectangle"
    THEN [Widened(InitialObject(o)) EXCEPT !.size = <<0, 0>>]
    ELSE Widened(InitialObject(o))
\* The tool after the selection was set to sel, the mode to mode and the left
\* button pressed on the handle at anchor
PressedOnHandle(sel, mode, anchor, flat) ==
    LET constructed == ConstructedTool([o \in Objects |-> WithItem(WideObject(o, flat))])
        shown == setMode(setSelectedObjectItems(constructed, sel), mode)
    IN  IF mode = "Resize"
        THEN mousePressed(shown, shown.handles.resizePos[anchor],
                          [kind |-> "resize", anchor |-> anchor, object |-> 0])
        ELSE mousePressed(shown, shown.handles.rotatePos[anchor],
                          [kind |-> "rotate", anchor |-> anchor, object |-> 0])
Is(t) ==
    /\ mAction = t.mAction
    /\ mMode = t.mMode
    /\ mStart = t.mStart
    /\ mOrigin = t.mOrigin
    /\ mAlignPosition = t.mAlignPosition
    /\ mMovingObjects = t.mMovingObjects
    /\ mResizingLimitHorizontal = t.mResizingLimitHorizontal
    /\ mResizingLimitVertical = t.mResizingLimitVertical
    /\ mClickedObjectItem = t.mClickedObjectItem
    /\ mClickedRotateHandle = t.mClickedRotateHandle
    /\ mClickedResizeHandle = t.mClickedResizeHandle
    /\ selectionRectangleShown = t.selectionRectangleShown
    /\ objects = t.objects
    /\ present = t.present
    /\ selectedObjects = t.selectedObjects
    /\ handles = t.handles
    /\ undoStack = t.undoStack

InitWide ==
    \E sel \in (SUBSET Objects) \ {{}}, mode \in {"Resize", "Rotate"} :
    \E anchor \in IF mode = "Resize" THEN Anchors ELSE CornerAnchors :
    \E flat \in IF mode = "Resize" /\ \A o \in sel : ShapeOf(o) = "Rectangle"
                THEN BOOLEAN ELSE {FALSE} :
    \E t \in {PressedOnHandle(sel, mode, anchor, flat)} :
        /\ Is(t)
        /\ activated = TRUE
        /\ mMousePressed = TRUE
        /\ mScreenStart = CursorPos(t.mStart)
        /\ mousePos = t.mStart
        /\ presses = 1
        /\ removals = 0
        /\ selectionChanges = 1
        /\ gestureBase = t.objects
        /\ lastClick = NoClick
        /\ ignoredPress = FALSE

\* A pointer move with the left button held, on the wide canvas
WideMoved ==
    /\ mMousePressed
    /\ \E pos \in WidePositions, modifiers \in ModifierSets :
          MouseMovedTo(pos, modifiers, <<0, 0>>)
    /\ lastClick' = NoClick
    /\ ignoredPress' = FALSE
    /\ UNCHANGED <<activated, mMousePressed, mScreenStart, presses, removals,
                   selectionChanges>>

NextWide ==
    \/ WideMoved
    \/ MouseReleased

SpecWide == InitWide /\ [][NextWide]_vars

\* ------------------------------------------------------------- undoing a macro
\* QUndoCommand::undo() of the four commands: each puts back the old value it
\* was given; moving an object moves its item.
undo(objs, command) ==
    CASE command.kind = "Move" ->
            [objs EXCEPT ![command.object].position = command.old,
                         ![command.object].itemPos = pixelToScreenCoords(command.old)]
      [] command.kind = "Rotate" -> [objs EXCEPT ![command.object].rotation = command.old]
      [] command.kind = "Resize" -> [objs EXCEPT ![command.object].size = command.old]
      [] command.kind = "Polygon" -> [objs EXCEPT ![command.object].polygon = command.old]

\* QUndoStack::undo() of a macro: its commands are undone last to first
RECURSIVE undoMacro(_, _)
undoMacro(objs, commands) ==
    IF commands = <<>> THEN objs
    ELSE undoMacro(undo(objs, commands[Len(commands)]),
                   SubSeq(commands, 1, Len(commands) - 1))

\* ------------------------------------------------------------- properties
\* The point of the press and the point of the release of the left button
PressPoint == mScreenStart
ReleasePoint == mousePos
LastMacro == undoStack[Len(undoStack)]
Geometry(ob) == <<ob.position, ob.size, ob.rotation, ob.polygon>>
\* The release that ends the gesture g
Finishes(g) == mAction = g /\ mAction' = "NoAction"
PushesNothing == undoStack' = undoStack
PushesOneMacro == Len(undoStack') = Len(undoStack) + 1
                    /\ SubSeq(undoStack', 1, Len(undoStack)) = undoStack
Pushed == undoStack'[Len(undoStack')]
CommandsOf(o, commands) == SelectSeq(commands, LAMBDA c : c.object = o)
\* Undoing the macro the step pushed puts every object of the map back to
\* what it was when the gesture started
UndoRestoresAll ==
    \A o \in present' :
        Geometry(undoMacro(objects', Pushed.commands)[o]) = Geometry(gestureBase[o])
\* The position of the handle the Resizing gesture was started with
ClickedHandlePoint == handles.resizePos[mClickedResizeHandle]

\* C1: the action is always one of NoAction, Selecting, Moving, Rotating and
\* Resizing, and every change of the action is from NoAction to one of the
\* other four or from one of those back to NoAction.
ActionChangesThroughNoAction ==
    [][/\ mAction \in Actions
       /\ mAction' \in Actions
       /\ mAction' # mAction => (mAction = "NoAction" \/ mAction' = "NoAction")]_vars

\* A gesture was started and has ended: its macro is on the undo stack
GestureCameAndWent ==
    /\ mAction = "NoAction"
    /\ ~mMousePressed
    /\ undoStack # <<>>
    /\ LastMacro.by = "gesture"

\* C2: while the left button is down and no pointer move has reached the drag
\* distance from the press point, the action stays NoAction, whatever the
\* modifiers and whatever was clicked.
ShortDragKeepsNoAction ==
    [][(/\ mAction = "NoAction"
        /\ mMousePressed
        /\ ManhattanLength(PSub(PressPoint, CursorPos(mousePos'))) < DragPixels)
       => mAction' = "NoAction"]_vars

\* The pointer was moved off the press point on a resize handle, by less than
\* the drag distance
ShortDragOnHandle ==
    /\ mAction = "NoAction"
    /\ mMousePressed
    /\ mClickedResizeHandle # "none"
    /\ mousePos # PressPoint
    /\ ManhattanLength(PSub(PressPoint, CursorPos(mousePos))) < DragPixels

\* The gesture the dispatch of a drag is said to choose
ChosenGesture(modifiers) ==
    IF (mClickedObjectItem # 0 \/ "Alt" \in modifiers) /\ "Shift" \notin modifiers
    THEN "Moving"
    ELSE IF mClickedRotateHandle # "none" THEN "Rotating"
    ELSE IF mClickedResizeHandle # "none" THEN "Resizing"
    ELSE "Selecting"
\* The step is a pointer move to pos with the given modifiers
IsMouseMoved(pos, modifiers) ==
    /\ mMousePressed
    /\ mousePos' = pos
    /\ \E junk \in PressPositions : MouseMovedTo(pos, modifiers, junk)

NothingPushedMeanwhile == (mAction \in Gestures /\ mAction' \in Gestures) => PushesNothing

\* C4 as stated: a Moving, Rotating or Resizing gesture whose release point
\* differs from the press point has pushed exactly one macro, and undoing it
\* puts every object back to its position, size, rotation and polygon of
\* before the gesture.
ReleaseOffPressPointCommits ==
    [][/\ NothingPushedMeanwhile
       /\ \A g \in Gestures :
             (Finishes(g) /\ ReleasePoint # PressPoint)
             => (PushesOneMacro /\ UndoRestoresAll)]_vars

\* The point the finish step compares the release point with: mStart, which
\* is the press point for Moving and Rotating and which startResizing() sets
\* to the position of the clicked handle
GestureStartPoint == IF mAction = "Resizing" THEN ClickedHandlePoint ELSE PressPoint

\* C4: a Moving, Rotating or Resizing gesture whose release point differs from
\* the point the gesture started at (the press point for Moving and Rotating,
\* the position of the clicked handle for Resizing) has pushed exactly one
\* macro, and undoing it puts every object back to its position, size,
\* rotation and polygon of before the gesture.
CommittedGestureIsOneUndoStep ==
    [][/\ NothingPushedMeanwhile
       /\ \A g \in Gestures :
             (Finishes(g) /\ ReleasePoint # GestureStartPoint)
             => (PushesOneMacro /\ UndoRestoresAll)]_vars

\* A Resizing gesture that changed a polygon was committed, and undoing its
\* macro gives the objects of before the gesture
ResizedPolygonUndone ==
    /\ mAction = "NoAction"
    /\ undoStack # <<>>
    /\ LastMacro.by = "gesture"
    /\ LastMacro.text = "Resize"
    /\ \E o \in present :
          /\ objects[o].polygon # gestureBase[o].polygon
          /\ undoMacro(objects, LastMacro.commands)[o].polygon = gestureBase[o].polygon
    /\ \A o \in present :
          Geometry(undoMacro(objects, LastMacro.commands)[o]) = Geometry(gestureBase[o])

\* C5: the release that ends Moving pushes nothing when the release point is
\* the press point; otherwise it pushes one macro that holds exactly one
\* MoveMapObject per object of the snapshot, with the object's pixel position
\* of before the gesture.
FinishMovingPushesMoves ==
    [][Finishes("Moving") =>
          IF ReleasePoint = PressPoint THEN PushesNothing
          ELSE /\ PushesOneMacro
               /\ Len(Pushed.commands) = Len(mMovingObjects)
               /\ \A k \in DOMAIN mMovingObjects :
                     Pushed.commands[k] =
                        [kind |-> "Move", object |-> mMovingObjects[k].item,
                         old |-> gestureBase[mMovingObjects[k].item].position]]_vars

\* A Moving of both objects was committed
MovedTwoObjects ==
    /\ mAction = "NoAction"
    /\ undoStack # <<>>
    /\ LastMacro.by = "gesture"
    /\ LastMacro.text = "Move"
    /\ Len(LastMacro.commands) = 2
    /\ \A o \in Objects : objects[o].position # gestureBase[o].position
    /\ ReleasePoint # PressPoint

\* C6: the release that ends Rotating pushes nothing when the release point is
\* the press point; otherwise it pushes one macro that holds, for every object
\* of the snapshot, a MoveMapObject and a RotateMapObject with the position
\* and rotation of before the gesture.
FinishRotatingPushesMoveAndRotate ==
    [][Finishes("Rotating") =>
          IF ReleasePoint = PressPoint THEN PushesNothing
          ELSE /\ PushesOneMacro
               /\ \A c \in {Pushed.commands[n] : n \in DOMAIN Pushed.commands} :
                     c.object \in SnapshotItems(Tool)
               /\ \A o \in SnapshotItems(Tool) :
                     CommandsOf(o, Pushed.commands) =
                        <<[kind |-> "Move", object |-> o, old |-> gestureBase[o].position],
                          [kind |-> "Rotate", object |-> o,
                           old |-> gestureBase[o].rotation]>>]_vars

\* A Rotating that turned an object was committed
RotatedObject ==
    /\ mAction = "NoAction"
    /\ undoStack # <<>>
    /\ LastMacro.by = "gesture"
    /\ LastMacro.text = "Rotate"
    /\ \E o \in Objects : /\ CommandsOf(o, LastMacro.commands) # <<>>
                          /\ objects[o].rotation # gestureBase[o].rotation
    /\ ReleasePoint # PressPoint

\* What the release that ends Resizing pushes when it pushes
PushesResizeCommands ==
    /\ PushesOneMacro
    /\ \A c \in {Pushed.commands[n] : n \in DOMAIN Pushed.commands} :
          c.object \in SnapshotItems(Tool)
    /\ \A o \in SnapshotItems(Tool) :
          CommandsOf(o, Pushed.commands) =
             <<[kind |-> "Move", object |-> o, old |-> gestureBase[o].position],
               [kind |-> "Resize", object |-> o, old |-> gestureBase[o].size]>>
             \o (IF gestureBase[o].polygon # <<>>
                 THEN <<[kind |-> "Polygon", object |-> o, old |-> gestureBase[o].polygon]>>
                 ELSE <<>>)

\* C7 as stated: the release that ends Resizing pushes nothing when the
\* release point is the point where the pointer was pressed; otherwise it
\* pushes, for each object of the snapshot, a MoveMapObject and a
\* ResizeMapObject, and a ChangePolygon exactly when the polygon of before the
\* gesture is not empty.
FinishResizingComparesPressPoint ==
    [][Finishes("Resizing") =>
          IF ReleasePoint = PressPoint THEN PushesNothing
          ELSE PushesResizeCommands]_vars

\* C7: the release that ends Resizing pushes nothing when the release point is
\* the position the clicked handle had when the gesture started; otherwise it
\* pushes, for each object of the snapshot, a MoveMapObject and a
\* ResizeMapObject, and a ChangePolygon exactly when the polygon of before the
\* gesture is not empty.
FinishResizingComparesHandlePoint ==
    [][Finishes("Resizing") =>
          IF ReleasePoint = ClickedHandlePoint THEN PushesNothing
          ELSE PushesResizeCommands]_vars

\* A Resizing started off the handle's position was committed by a release on
\* the press point, with a polygon and an object without one in its macro
ResizeReleasedOnPressPoint ==
    /\ mAction = "NoAction"
    /\ undoStack # <<>>
    /\ LastMacro.by = "gesture"
    /\ LastMacro.text = "Resize"
    /\ ReleasePoint = PressPoint
    /\ mStart # PressPoint
    /\ \E c \in {LastMacro.commands[n] : n \in DOMAIN LastMacro.commands} :
          c.kind = "Polygon"
    /\ \E o \in Objects :
          /\ CommandsOf(o, LastMacro.commands) # <<>>
          /\ gestureBase[o].polygon = <<>>

\* C8: when objects are removed while the action is Moving or Rotating, every
\* object of the snapshot that was not removed is at once back at its screen
\* position and pixel position of before the gesture (and its rotation, when
\* Rotating), the snapshot is empty and the action is still Moving or
\* Rotating.
RemovalRollsBack ==
    [][(present' # present /\ mAction \in {"Moving", "Rotating"}) =>
          /\ mMovingObjects' = <<>>
          /\ mAction' = mAction
          /\ \A o \in SnapshotItems(Tool) \cap present' :
                /\ objects'[o].itemPos = gestureBase[o].itemPos
                /\ objects'[o].position = gestureBase[o].position
                /\ mAction = "Rotating" => objects'[o].rotation = gestureBase[o].rotation]_vars

\* Objects were removed during Rotating; one that the gesture had taken is
\* still there, and the pointer is off the press point
RotatingRolledBack ==
    /\ mAction = "Rotating"
    /\ mMovingObjects = <<>>
    /\ removals > 0
    /\ selectedObjects # {}
    /\ ReleasePoint # PressPoint
    /\ \A o \in present : Geometry(objects[o]) = Geometry(gestureBase[o])

\* What is seen on the canvas: activate() puts the handles and the origin
\* indicator into the scene
ResizeHandlesVisible == activated /\ handles.resizeVisible
RotateHandlesVisible == activated /\ handles.rotateVisible
OriginIndicatorVisible == activated /\ handles.originVisible

\* C9: the resize handles are visible only if the mode is Resize, the
\* selection is not empty and the action is NoAction or Selecting; the rotate
\* handles only if the mode is Rotate, under the same two conditions; so the
\* two kinds are never visible together and none is visible during Moving,
\* Rotating or Resizing.
HandlesVisibleOnlyWhenIdle ==
    /\ ResizeHandlesVisible =>
          (mMode = "Resize" /\ selectedObjects # {} /\ mAction \in {"NoAction", "Selecting"})
    /\ RotateHandlesVisible =>
          (mMode = "Rotate" /\ selectedObjects # {} /\ mAction \in {"NoAction", "Selecting"})
    /\ ~(ResizeHandlesVisible /\ RotateHandlesVisible)
    /\ mAction \in Gestures => (~ResizeHandlesVisible /\ ~RotateHandlesVisible)

\* The rotate handles are visible while a rectangle is dragged out
RotateHandlesSeenWhileSelecting ==
    /\ RotateHandlesVisible
    /\ mAction = "Selecting"
    /\ selectedObjects # {}

\* C10: the origin indicator is visible only if the selection is not empty,
\* the action is not Moving, and the mode is Rotate or the action is Resizing;
\* also after a change of the selection or a removal during a gesture.
OriginIndicatorOnlyWithSelection ==
    OriginIndicatorVisible =>
        /\ selectedObjects # {}
        /\ mAction # "Moving"
        /\ (mMode = "Rotate" \/ mAction = "Resizing")

\* ------------------------------------------------------------- clicks
\* The step is a release of the left button with the given modifiers
IsMouseReleased(modifiers) ==
    /\ mMousePressed
    /\ ~mMousePressed'
    /\ Becomes(mouseReleased(Tool, mousePos, modifiers))
\* ... with no gesture active
IsClick(modifiers) == mAction = "NoAction" /\ IsMouseReleased(modifiers)
NoHandleClicked == mClickedRotateHandle = "none" /\ mClickedResizeHandle = "none"
MultiSelectHeld(modifiers) == modifiers \cap {"Shift", "Control"} # {}
OtherMode(mode) == IF mode = "Resize" THEN "Rotate" ELSE "Resize"

\* C11: a release of the left button with no gesture active, no handle
\* clicked, an object clicked and Shift or Control held flips the membership of
\* the clicked object in the selection, leaves the membership of every other
\* object as it was and leaves the edit mode as it was.
ModifierClickFlipsMembership ==
    [][\A modifiers \in ModifierSets :
          (/\ IsClick(modifiers)
           /\ NoHandleClicked
           /\ mClickedObjectItem # 0
           /\ MultiSelectHeld(modifiers))
          => /\ (mClickedObjectItem \in selectedObjects')
                    = (mClickedObjectItem \notin selectedObjects)
             /\ \A o \in Objects \ {mClickedObjectItem} :
                    (o \in selectedObjects') = (o \in selectedObjects)
             /\ mMode' = mMode]_vars

\* A click with Control alone took the clicked object out of a selection of two
ControlClickDeselected ==
    /\ lastClick.released
    /\ ~lastClick.onHandle
    /\ lastClick.modifiers = {"Control"}
    /\ lastClick.selection = Objects
    /\ lastClick.object \in Objects
    /\ selectedObjects = Objects \ {lastClick.object}
    /\ mMode = lastClick.mode

\* C12 as it was claimed: a click without Shift and Control on the object that
\* is the only selected object toggles the mode and keeps the selection, and a
\* click toggles the mode in that situation only (a click on an object outside
\* the selection, which sets the mode to Resize, is not counted as a toggle).
ModeToggledOnlyOnSoleSelected ==
    [][\A modifiers \in ModifierSets :
          IsClick(modifiers) =>
             /\ (/\ NoHandleClicked
                 /\ ~MultiSelectHeld(modifiers)
                 /\ mClickedObjectItem # 0
                 /\ selectedObjects = {mClickedObjectItem})
                => (mMode' = OtherMode(mMode) /\ selectedObjects' = selectedObjects)
             /\ (mMode' # mMode /\ mClickedObjectItem \in selectedObjects)
                => selectedObjects = {mClickedObjectItem}]_vars

\* C12, amended: a click without Shift and Control on an object that is in the
\* selection, alone or with others, toggles the mode and keeps the selection;
\* a click changes the mode only when no handle was clicked, neither Shift nor
\* Control is held and an object was clicked.
ModeToggledOnSelectedObject ==
    [][\A modifiers \in ModifierSets :
          IsClick(modifiers) =>
             /\ (/\ NoHandleClicked
                 /\ ~MultiSelectHeld(modifiers)
                 /\ mClickedObjectItem \in selectedObjects)
                => (mMode' = OtherMode(mMode) /\ selectedObjects' = selectedObjects)
             /\ (mMode' # mMode)
                => (/\ NoHandleClicked
                    /\ ~MultiSelectHeld(modifiers)
                    /\ mClickedObjectItem # 0)]_vars

\* A plain click on one of two selected objects has changed the mode
ClickOnOneOfTwoToggledMode ==
    /\ lastClick.released
    /\ ~lastClick.onHandle
    /\ lastClick.modifiers = {}
    /\ lastClick.selection = Objects
    /\ lastClick.object \in Objects
    /\ selectedObjects = Objects
    /\ mMode = OtherMode(lastClick.mode)

\* C13: a release of the left button with no gesture active, no handle clicked
\* and neither Shift nor Control held, on an object that is not in the
\* selection, makes the selection that one object and the mode Resize.
ClickOnUnselectedReplaces ==
    [][\A modifiers \in ModifierSets :
          (/\ IsClick(modifiers)
           /\ NoHandleClicked
           /\ ~MultiSelectHeld(modifiers)
           /\ mClickedObjectItem # 0
           /\ mClickedObjectItem \notin selectedObjects)
          => /\ selectedObjects' = {mClickedObjectItem}
             /\ mMode' = "Resize"]_vars

\* In Rotate mode with one object selected, a plain click on the other object
\* has replaced the selection and set the mode to Resize
ClickReplacedInRotateMode ==
    /\ lastClick.released
    /\ ~lastClick.onHandle
    /\ ~MultiSelectHeld(lastClick.modifiers)
    /\ lastClick.mode = "Rotate"
    /\ lastClick.object \in Objects
    /\ lastClick.selection = Objects \ {lastClick.object}
    /\ selectedObjects = {lastClick.object}
    /\ mMode = "Resize"

\* C14: a release of the left button with no gesture active and neither a
\* handle nor an object clicked empties the selection when neither Shift nor
\* Control is held and leaves the selection as it was when one of them is.
EmptyClickClearsUnlessMultiSelect ==
    [][\A modifiers \in ModifierSets :
          (/\ IsClick(modifiers)
           /\ NoHandleClicked
           /\ mClickedObjectItem = 0)
          => IF MultiSelectHeld(modifiers)
             THEN selectedObjects' = selectedObjects
             ELSE selectedObjects' = {}]_vars

\* ------------------------------------------------------------- arrow keys
ArrowDirection(key) ==
    CASE key = "Up" -> <<0, -1>> [] key = "Down" -> <<0, 1>>
      [] key = "Left" -> <<-1, 0>> [] key = "Right" -> <<1, 0>>
KeyIsIgnored(modifiers) ==
    mAction # "NoAction" \/ selectedObjects = {} \/ "Control" \in modifiers
\* Pressing the key now changes no object and pushes nothing
KeyChangesNothing(key, modifiers) ==
    /\ keyPressed(Tool, key, modifiers).objects = objects
    /\ keyPressed(Tool, key, modifiers).undoStack = undoStack
\* Pressing the key now moves every selected object by step and nothing else,
\* and pushes one macro with one MoveMapObject per selected object, which
\* holds the position the object had
KeyNudgesBy(key, modifiers, step) ==
    LET after == keyPressed(Tool, key, modifiers)
        pushed == after.undoStack[Len(after.undoStack)]
    IN  /\ \A o \in Objects :
              after.objects[o] =
                 IF o \in selectedObjects
                 THEN [objects[o] EXCEPT !.position = PAdd(objects[o].position, step),
                                         !.itemPos = PAdd(objects[o].itemPos, step)]
                 ELSE objects[o]
        /\ Len(after.undoStack) = Len(undoStack) + 1
        /\ SubSeq(after.undoStack, 1, Len(undoStack)) = undoStack
        /\ Len(pushed.commands) = Cardinality(selectedObjects)
        /\ \A o \in selectedObjects :
              CommandsOf(o, pushed.commands) = <<MoveMapObject(o, objects[o].position)>>

\* C15 as it was claimed: in every state, an arrow key with no gesture active,
\* a selection and Control not held moves every selected object by one pixel
\* in the arrow's direction and pushes one macro with one move command per
\* selected object holding its position of before; an arrow key during a
\* gesture, with nothing selected or with Control held changes no object and
\* pushes nothing.
NudgeIsOneUnit ==
    \A key \in ArrowKeys, modifiers \in ModifierSets :
        IF KeyIsIgnored(modifiers) THEN KeyChangesNothing(key, modifiers)
        ELSE KeyNudgesBy(key, modifiers, <<ArrowDirection(key)[1] * Px(1),
                                           ArrowDirection(key)[2] * Px(1)>>)

\* C15, amended: the step is one pixel, and with Shift held one tile (the tile
\* width for Left and Right, the tile height for Up and Down).
NudgeIsOneUnitOrOneTile ==
    \A key \in ArrowKeys, modifiers \in ModifierSets :
        IF KeyIsIgnored(modifiers) THEN KeyChangesNothing(key, modifiers)
        ELSE KeyNudgesBy(key, modifiers,
                         IF "Shift" \in modifiers
                         THEN <<ArrowDirection(key)[1] * TileWidth,
                                ArrowDirection(key)[2] * TileHeight>>
                         ELSE <<ArrowDirection(key)[1] * Px(1),
                                ArrowDirection(key)[2] * Px(1)>>)

\* Both objects were nudged by a key press, by one tile
NudgedTwoObjectsByOneTile ==
    /\ undoStack # <<>>
    /\ LastMacro.by = "key"
    /\ Len(LastMacro.commands) = NumObjects
    /\ \E key \in ArrowKeys :
          \A k \in DOMAIN LastMacro.commands :
              objects[LastMacro.commands[k].object].position =
                 PAdd(LastMacro.commands[k].old,
                      <<ArrowDirection(key)[1] * TileWidth,
                        ArrowDirection(key)[2] * TileHeight>>)

\* ------------------------------------------------------------- moving
\* How far the item of o is from where it was when the gesture started
Displacement(o) == PSub(objects[o].itemPos, gestureBase[o].itemPos)

\* C16: while Moving, all objects of the snapshot are away from their screen
\* positions of before the gesture by one and the same vector, so the offset
\* between any two of them is what it was, and the pixel position of each is
\* the conversion of its screen position.
MovingDisplacesAllAlike ==
    mAction = "Moving" =>
        \A j, k \in DOMAIN mMovingObjects :
            /\ Displacement(mMovingObjects[j].item) = Displacement(mMovingObjects[k].item)
            /\ PSub(objects[mMovingObjects[j].item].itemPos,
                    objects[mMovingObjects[k].item].itemPos)
                 = PSub(gestureBase[mMovingObjects[j].item].itemPos,
                        gestureBase[mMovingObjects[k].item].itemPos)
            /\ objects[mMovingObjects[k].item].position
                 = screenToPixelCoords(objects[mMovingObjects[k].item].itemPos)

\* Two objects are being moved, by a vector that snapping made different from
\* the pointer's way
TwoObjectsMovedSnapped ==
    /\ mAction = "Moving"
    /\ Len(mMovingObjects) = 2
    /\ Displacement(1) # <<0, 0>>
    /\ Displacement(1) # PSub(mousePos, mStart)
    /\ Displacement(2) = Displacement(1)

\* The objects whose item the step moves
Movers == {o \in Objects : objects'[o].itemPos # objects[o].itemPos}
\* The step moves the objects of S, all by the same vector (which snapping can
\* make zero), and no other object
MovesExactly(S) ==
    /\ Movers \in {S, {}}
    /\ \A a, b \in S : PSub(objects'[a].itemPos, objects[a].itemPos)
                         = PSub(objects'[b].itemPos, objects[b].itemPos)
    /\ \A o \in Objects \ S : objects'[o] = objects[o]

\* C17: when Moving starts with a clicked object that is not in the selection
\* and Alt not held, the selection becomes the clicked object, the snapshot is
\* of that object and only it moves; when the clicked object is selected, or
\* Alt is held, or no object was clicked, the selection stays, the snapshot is
\* of the selection and every selected object moves.
StartMovingCollapsesToClicked ==
    [][\A modifiers \in ModifierSets :
          (/\ mAction = "NoAction"
           /\ mAction' = "Moving"
           /\ IsMouseMoved(mousePos', modifiers))
          => IF /\ mClickedObjectItem # 0
                /\ mClickedObjectItem \notin selectedObjects
                /\ "Alt" \notin modifiers
             THEN /\ selectedObjects' = {mClickedObjectItem}
                  /\ {mMovingObjects'[k].item : k \in DOMAIN mMovingObjects'}
                        = {mClickedObjectItem}
                  /\ MovesExactly({mClickedObjectItem})
             ELSE /\ selectedObjects' = selectedObjects
                  /\ {mMovingObjects'[k].item : k \in DOMAIN mMovingObjects'}
                        = selectedObjects
                  /\ Len(mMovingObjects') = Cardinality(selectedObjects)
                  /\ MovesExactly(selectedObjects)]_vars

\* With nothing selected, a drag of object 2 has selected it and moves it alone
DragOfUnselectedMovesItAlone ==
    /\ mAction = "Moving"
    /\ presses = 1
    /\ selectionChanges = 0
    /\ removals = 0
    /\ selectedObjects = {2}
    /\ Len(mMovingObjects) = 1
    /\ Displacement(2) # <<0, 0>>
    /\ Displacement(1) = <<0, 0>>

\* ------------------------------------------------------------- rotating with the snap modifier
\* The angle from (pivot to press point) to (pivot to pointer), in hundredths
\* of a degree
RawAngleNow ==
    LET startDiff == PSub(mOrigin', mStart')
        currentDiff == PSub(mOrigin', mousePos')
    IN  IF AngleIsKnown(startDiff) /\ AngleIsKnown(currentDiff)
        THEN RawAngleDiff(startDiff, currentDiff)
        ELSE 100 * AngleDiff(startDiff, currentDiff)

\* C18: after a pointer update of Rotating with Control held, the rotation of
\* every object of the snapshot is its rotation of before the gesture plus a
\* multiple of 15 degrees, the one nearest to the raw angle between (pivot to
\* press point) and (pivot to pointer), a raw angle half way between two
\* multiples going to the larger.
SnappedRotationIsNearestMultiple ==
    [][\A modifiers \in ModifierSets :
          (/\ "Control" \in modifiers
           /\ mAction' = "Rotating"
           /\ IsMouseMoved(mousePos', modifiers))
          => \E k \in -24 .. 24 :
                /\ 1500 * k - 750 <= RawAngleNow
                /\ RawAngleNow < 1500 * k + 750
                /\ \A i \in DOMAIN mMovingObjects' :
                      objects'[mMovingObjects'[i].item].rotation
                         = gestureBase'[mMovingObjects'[i].item].rotation + 15 * k]_vars

\* Both objects are rotated by a quarter turn, while the raw angle of the
\* pointer is within 7.5 degrees of a quarter turn and is not one
SnappedToQuarterTurn ==
    /\ mAction = "Rotating"
    /\ Len(mMovingObjects) = 2
    /\ AngleIsKnown(PSub(mOrigin, mStart)) /\ AngleIsKnown(PSub(mOrigin, mousePos))
    /\ RawAngleDiff(PSub(mOrigin, mStart), PSub(mOrigin, mousePos)) % 1500 # 0
    /\ \E k \in {-3, -1, 1, 3} :
          /\ 9000 * k - 750 <= RawAngleDiff(PSub(mOrigin, mStart), PSub(mOrigin, mousePos))
          /\ RawAngleDiff(PSub(mOrigin, mStart), PSub(mOrigin, mousePos)) < 9000 * k + 750
          /\ \A o \in Objects : objects[o].rotation = gestureBase[o].rotation + 90 * k

\* ------------------------------------------------------------- resizing several objects
\* The pivot of the update, the pointer after snapping and the handle's point
PivotNow(modifiers) ==
    IF "Shift" \in modifiers THEN mOrigin' ELSE handles.resizeOrigin[mClickedResizeHandle]
OffsetNow(modifiers) == PSub(SnappedScreenPos(mousePos', modifiers), PivotNow(modifiers))
OffsetAtStart(modifiers) == PSub(mStart', PivotNow(modifiers))
\* num / den, not below 0.01, as a fraction with a positive denominator
FlooredRatio(num, den) ==
    LET n == IF den < 0 THEN -num ELSE num
        d == Abs(den)
    IN  IF 100 * n < d THEN Fraction(1, 100) ELSE Fraction(n, d)
\* The step is an update of Resizing for more than one object
IsMultiResizeUpdate(modifiers) ==
    /\ mAction' = "Resizing"
    /\ Len(mMovingObjects') > 1
    /\ IsMouseMoved(mousePos', modifiers)
\* Every object of the snapshot has its size (fx times the width, fy times
\* the height) and its offset from the pivot scaled from what they were
\* before the gesture
ScaledFromBase(modifiers, fx, fy) ==
    \A i \in DOMAIN mMovingObjects' :
        LET o == mMovingObjects'[i].item
            was == PSub(gestureBase'[o].itemPos, PivotNow(modifiers))
            now == PSub(objects'[o].itemPos, PivotNow(modifiers))
        IN  /\ objects'[o].size[1] * fx.d = gestureBase'[o].size[1] * fx.n
            /\ objects'[o].size[2] * fy.d = gestureBase'[o].size[2] * fy.n
            /\ now[1] * fx.d = was[1] * fx.n
            /\ now[2] * fy.d = was[2] * fy.n

\* C19: in an update of Resizing for several objects with a corner handle, the
\* scale is the smaller of the X and the Y ratio (offset of the pointer from
\* the pivot over the offset of the start point from the pivot), each not
\* below 0.01; it is not below 0.01, and the size and the offset from the
\* pivot of every object are those of before the gesture times the scale.
CornerScaleIsSmallerRatio ==
    [][\A modifiers \in ModifierSets :
          (/\ IsMultiResizeUpdate(modifiers)
           /\ mClickedResizeHandle \in CornerAnchors
           /\ OffsetAtStart(modifiers)[1] # 0
           /\ OffsetAtStart(modifiers)[2] # 0)
          => LET rx == FlooredRatio(OffsetNow(modifiers)[1], OffsetAtStart(modifiers)[1])
                 ry == FlooredRatio(OffsetNow(modifiers)[2], OffsetAtStart(modifiers)[2])
                 f == IF rx.n * ry.d <= ry.n * rx.d THEN rx ELSE ry
             IN  /\ 100 * f.n >= f.d
                 /\ ScaledFromBase(modifiers, f, f)]_vars

\* The bottom right handle of both objects was dragged to twice the width and
\* three times the height from the pivot, and the objects are twice as large
ScaledByTwoNotThree ==
    /\ mAction = "Resizing"
    /\ Len(mMovingObjects) = 2
    /\ mClickedResizeHandle = "BottomRight"
    /\ mousePos[1] - handles.originPos[1] = 2 * (mStart[1] - handles.originPos[1])
    /\ mousePos[2] - handles.originPos[2] = 3 * (mStart[2] - handles.originPos[2])
    /\ mStart[1] # handles.originPos[1] /\ mStart[2] # handles.originPos[2]
    /\ \A o \in Objects : /\ objects[o].size[1] = 2 * gestureBase[o].size[1]
                          /\ objects[o].size[2] = 2 * gestureBase[o].size[2]
    /\ gestureBase[1].size[1] > 0

\* C20 as it was claimed: in an update of Resizing for several objects, a top
\* or bottom handle leaves the width and the horizontal offset from the pivot
\* of every object as they were before the gesture, and a left or right handle
\* the height and the vertical offset; the other axis is scaled by its ratio.
EdgeHandleScalesOneAxis ==
    [][(\A modifiers \in ModifierSets :
          (/\ IsMultiResizeUpdate(modifiers)
           /\ mClickedResizeHandle \in {"Top", "Bottom"}
           /\ OffsetAtStart(modifiers)[2] # 0)
          => ScaledFromBase(modifiers, One,
                            FlooredRatio(OffsetNow(modifiers)[2], OffsetAtStart(modifiers)[2])))
       /\ (\A edgeModifiers \in ModifierSets :
          (/\ IsMultiResizeUpdate(edgeModifiers)
           /\ mClickedResizeHandle \in {"Left", "Right"}
           /\ OffsetAtStart(edgeModifiers)[1] # 0)
          => ScaledFromBase(edgeModifiers,
                            FlooredRatio(OffsetNow(edgeModifiers)[1], OffsetAtStart(edgeModifiers)[1]),
                            One))]_vars

\* C20, amended: a top or bottom handle takes the scale from the vertical
\* ratio alone and a left or right handle from the horizontal ratio alone, not
\* below 0.01, and that one scale applies to both axes: width, height and
\* both coordinates of the offset from the pivot of every object.
EdgeHandleScalesBothAxes ==
    [][(\A modifiers \in ModifierSets :
          (/\ IsMultiResizeUpdate(modifiers)
           /\ mClickedResizeHandle \in {"Top", "Bottom"}
           /\ OffsetAtStart(modifiers)[2] # 0)
          => LET f == FlooredRatio(OffsetNow(modifiers)[2], OffsetAtStart(modifiers)[2])
             IN  ScaledFromBase(modifiers, f, f))
       /\ (\A edgeModifiers \in ModifierSets :
          (/\ IsMultiResizeUpdate(edgeModifiers)
           /\ mClickedResizeHandle \in {"Left", "Right"}
           /\ OffsetAtStart(edgeModifiers)[1] # 0)
          => LET f == FlooredRatio(OffsetNow(edgeModifiers)[1], OffsetAtStart(edgeModifiers)[1])
             IN  ScaledFromBase(edgeModifiers, f, f))]_vars

\* The bottom handle of both objects was dragged to twice the height, and the
\* objects are twice as wide as well
BottomHandleDoubledWidth ==
    /\ mAction = "Resizing"
    /\ Len(mMovingObjects) = 2
    /\ mClickedResizeHandle = "Bottom"
    /\ mousePos[2] - handles.originPos[2] = 2 * (mStart[2] - handles.originPos[2])
    /\ mStart[2] # handles.originPos[2]
    /\ objects[1].size = <<2 * gestureBase[1].size[1], 2 * gestureBase[1].size[2]>>
    /\ gestureBase[1].size[1] > 0

\* ------------------------------------------------------------- resizing one object
LeftAnchors == {"Left", "TopLeft", "BottomLeft"}
RightAnchors == {"Right", "TopRight", "BottomRight"}
TopAnchors == {"Top", "TopLeft", "TopRight"}
BottomAnchors == {"Bottom", "BottomLeft", "BottomRight"}
\* The step is an update of Resizing for one object
IsSingleResizeUpdate(modifiers) ==
    /\ mAction' = "Resizing"
    /\ Len(mMovingObjects') = 1
    /\ IsMouseMoved(mousePos', modifiers)

\* C21: an update of Resizing for one rectangle or ellipse, with neither Shift
\* nor Control held, leaves the edges on the side of the pivot where they were
\* before the gesture and puts each dragged edge at the pointer's coordinate,
\* or at the pivot's when the pointer is beyond the pivot; width and height
\* are not negative.
DirectResizeClampsDraggedEdges ==
    [][\A modifiers \in ModifierSets :
          (/\ IsSingleResizeUpdate(modifiers)
           /\ ShapeOf(mMovingObjects'[1].item) \in {"Rectangle", "Ellipse"}
           /\ modifiers \cap {"Shift", "Control"} = {})
          => LET o == mMovingObjects'[1].item
                 anchor == mClickedResizeHandle'
                 was == align(RectOf(gestureBase'[o].position, gestureBase'[o].size),
                              AlignmentOf(o))
                 now == align(RectOf(objects'[o].position, objects'[o].size), AlignmentOf(o))
                 unrotate == rotateAt(gestureBase'[o].itemPos, -gestureBase'[o].rotation)
                 pivot == TMap(unrotate, handles'.resizeOrigin[anchor])
                 cursor == TMap(unrotate, SnappedScreenPos(mousePos', modifiers))
             IN  /\ now.w >= 0
                 /\ now.h >= 0
                 /\ CASE anchor \in LeftAnchors ->
                            /\ now.x = Min2(cursor[1], pivot[1])
                            /\ now.x + now.w = was.x + was.w
                      [] anchor \in RightAnchors ->
                            /\ now.x = was.x
                            /\ now.x + now.w = Max2(cursor[1], pivot[1])
                      [] OTHER -> now.x = was.x /\ now.w = was.w
                 /\ CASE anchor \in TopAnchors ->
                            /\ now.y = Min2(cursor[2], pivot[2])
                            /\ now.y + now.h = was.y + was.h
                      [] anchor \in BottomAnchors ->
                            /\ now.y = was.y
                            /\ now.y + now.h = Max2(cursor[2], pivot[2])
                      [] OTHER -> now.y = was.y /\ now.h = was.h]_vars

\* A rectangle of no size has grown to the pointer, which its bottom right
\* handle was dragged to, twice as far to the right as down; its top left
\* corner is still at the pivot
GrownFromNoSize ==
    /\ mAction = "Resizing"
    /\ Len(mMovingObjects) = 1
    /\ mClickedResizeHandle = "BottomRight"
    /\ ShapeOf(mMovingObjects[1].item) = "Rectangle"
    /\ gestureBase[mMovingObjects[1].item].size = <<0, 0>>
    /\ mousePos = PAdd(handles.resizeOrigin["BottomRight"], <<Px(2 * WideScale), Px(WideScale)>>)
    /\ objects[mMovingObjects[1].item].size = <<Px(2 * WideScale), Px(WideScale)>>
    /\ objects[mMovingObjects[1].item].position = handles.resizeOrigin["BottomRight"]

\* C22: no update of Resizing divides by zero: the denominator of every scale
\* ratio it computes is not zero.
NoUpdateDividesByZero ==
    [][\A modifiers \in ModifierSets :
          (mAction' = "Resizing" /\ IsMouseMoved(mousePos', modifiers))
          => 0 \notin ResizeDenominators(Tool', modifiers)]_vars

\* ------------------------------------------------------------- handles during a gesture
\* C23: a call of updateHandles during Moving, Rotating or Resizing, which a
\* change of the selection or the removal of objects brings about, changes no
\* handle's position, rotation, resize origin or visibility.
UpdateHandlesIdleInGesture ==
    [][(/\ mAction \in Gestures
        /\ selectionChanges' # selectionChanges \/ removals' # removals)
       => handles' = handles]_vars

\* The selection was changed from outside during Moving, and the handles are
\* not where a call of updateHandles outside a gesture would put them
SelectionChangedWhileMoving ==
    /\ mAction = "Moving"
    /\ removals = 0
    /\ mMovingObjects # <<>>
    /\ selectedObjects # {mMovingObjects[i].item : i \in DOMAIN mMovingObjects}
    /\ selectedObjects # {}
    /\ updateHandles(handles, "NoAction", mMode, objects, selectedObjects) # handles

\* ------------------------------------------------------------- the snapshot
\* C24: in every state in which the action is Moving, Rotating or Resizing the
\* snapshot holds as many records as there are selected objects, also after
\* objects were removed or the selection changed during the gesture.
SnapshotMatchesSelection ==
    mAction \in Gestures => Len(mMovingObjects) = Cardinality(selectedObjects)

\* C25: in every state with no action the snapshot is empty: a release that
\* ends Moving, Rotating or Resizing has discarded it, whether it pushed an
\* undo macro or did nothing.
NoSnapshotOutsideGesture ==
    mAction = "NoAction" => mMovingObjects = <<>>

\* The tool with the objects of the snapshot put back to what they were when
\* the gesture started
Rewound ==
    [Tool EXCEPT !.objects = [o \in Objects |->
        IF o \in SnapshotItems(Tool) THEN gestureBase[o] ELSE objects[o]]]

\* The step is a pointer update of a running gesture with the given modifiers
IsGestureUpdate(modifiers) ==
    /\ mAction \in Gestures
    /\ mMousePressed'
    /\ presses' = presses
    /\ removals' = removals
    /\ selectionChanges' = selectionChanges
    /\ undoStack' = undoStack
    /\ UpdateIsExact(Tool, mousePos', modifiers)
    /\ \E after \in {updateGesture(Tool, mousePos', modifiers)} : Becomes(after)

\* C26: during Moving, Rotating and Resizing no record of the snapshot is
\* changed (a step keeps the snapshot or, on a removal, empties it), and a
\* pointer update leaves the objects as it would have left them had they been
\* in their state at the start of the gesture: what they were made by earlier
\* pointer positions has no effect.
UpdateDependsOnSnapshotOnly ==
    [][/\ (mAction \in Gestures /\ mAction' \in Gestures)
          => mMovingObjects' \in {mMovingObjects, <<>>}
       /\ \A modifiers \in ModifierSets :
             IsGestureUpdate(modifiers)
             => /\ mMovingObjects' = mMovingObjects
                /\ objects' = updateGesture(Rewound, mousePos', modifiers).objects]_vars

\* Moving took the pointer away from the press point and back: the objects are
\* where they were when the gesture started
MovedAwayAndBack ==
    /\ mAction = "Moving"
    /\ mMovingObjects # <<>>
    /\ mousePos = mStart
    /\ \A o \in SnapshotItems(Tool) : Geometry(objects[o]) = Geometry(gestureBase[o])

\* ------------------------------------------------------------- Shift at the start of a drag
\* The step is the pointer move that starts a gesture, with Shift held
StartsGestureWithShift(modifiers) ==
    /\ mAction = "NoAction"
    /\ mAction' # "NoAction"
    /\ "Shift" \in modifiers
    /\ IsMouseMoved(mousePos', modifiers)

ReleaseResetsTool ==
    [][(mMousePressed /\ ~mMousePressed')
       => /\ mAction' = "NoAction"
          /\ mClickedObjectItem' = 0
          /\ mClickedRotateHandle' = "none"
          /\ mClickedResizeHandle' = "none"
          /\ mAction = "Selecting" => ~selectionRectangleShown']_vars

\* A gesture whose snapshot a removal had emptied was ended by a release off
\* the press point: the macro it pushed has no command
ReleasedAfterRollback ==
    /\ mAction = "NoAction"
    /\ ~mMousePressed
    /\ removals > 0
    /\ undoStack # <<>>
    /\ LastMacro.by = "gesture"
    /\ LastMacro.commands = <<>>
    /\ selectedObjects # {}

\* ------------------------------------------------------------- a press during a gesture
\* C29: a press that arrives while the action is not NoAction changes nothing:
\* the press point, the clicked items, the action, the snapshot, the objects,
\* the selection, the handles and the undo stack stay as they were; the resize
\* handle recorded by the press that led to Resizing stays recorded for as
\* long as the action is Resizing.
PressInGestureChangesNothing ==
    [][/\ (mAction # "NoAction" /\ presses' # presses)
          => UNCHANGED <<mStart, mScreenStart, mMousePressed, mClickedObjectItem,
                         mClickedRotateHandle, mClickedResizeHandle, mAction, mMode,
                         mOrigin, mAlignPosition, mMovingObjects, objects, present,
                         selectedObjects, handles, undoStack>>
       /\ mAction' = "Resizing"
          => /\ mClickedResizeHandle' # "none"
             /\ mAction = "Resizing" => mClickedResizeHandle' = mClickedResizeHandle]_vars

\* A press arrived during Resizing and was ignored
PressIgnoredWhileResizing ==
    /\ ignoredPress
    /\ mAction = "Resizing"
    /\ mClickedResizeHandle # "none"
    /\ mMovingObjects # <<>>

\* ------------------------------------------------------------- a gesture that pushes nothing
\* C30: when the release that ends Moving, Rotating or Resizing pushes no undo
\* macro, every object of the snapshot has the position, size, rotation and
\* polygon it had when the gesture started, whatever the modifiers and the
\* snapping were.
NoOpFinishLeavesNoChange ==
    [][(mAction \in Gestures /\ mAction' = "NoAction" /\ PushesNothing)
       => \A o \in SnapshotItems(Tool) :
             Geometry(objects'[o]) = Geometry(gestureBase[o])]_vars

\* ------------------------------------------------------------- what a gesture pushes and takes
\* C31: every macro on the undo stack, pushed by the release that ends
\* Moving, Rotating or Resizing or by an arrow key, holds at least one command.
NoMacroIsEmpty ==
    \A i \in DOMAIN undoStack : undoStack[i].commands # <<>>

\* C32: the pointer move that starts Moving takes a snapshot of at least one
\* object, from which startMoving reads the alignment reference point, also
\* when the drag began on empty space with Alt held and nothing selected.
MovingStartsWithSnapshot ==
    [][(mAction = "NoAction" /\ mAction' = "Moving") => mMovingObjects' # <<>>]_vars

\* C33: while the action is Moving, Rotating or Resizing every record of the
\* snapshot is of an object that is still in the map, so that no later update
\* or release of the gesture reads or writes a removed object.
SnapshotObjectsExist ==
    mAction \in Gestures => SnapshotItems(Tool) \subseteq present

\* C34: a removal during Moving or Rotating of objects none of which is in
\* the snapshot leaves the snapshot as it is and every object of the snapshot
\* at its position and rotation.
UnrelatedRemovalLeavesGesture ==
    [][(/\ mAction \in {"Moving", "Rotating"}
        /\ removals' # removals
        /\ (present \ present') \cap SnapshotItems(Tool) = {})
       => /\ mMovingObjects' = mMovingObjects
          /\ \A o \in SnapshotItems(Tool) :
                /\ objects'[o].position = objects[o].position
                /\ objects'[o].rotation = objects[o].rotation]_vars
====
